---- MODULE Spec2Model ----
(***************************************************************************)
(* The data layer of the ontology viewer (docs/app/core.js, bundled in     *)
(* src/docs/app/ui-helpers.js): the literal selector, the table model      *)
(* builder and filter/sort, as state machines over the values they read    *)
(* and return.                                                             *)
(*                                                                         *)
(* Strings are sequences of characters (one-character TLA+ strings); an    *)
(* IRI is a string of one token.  Arrays of rows live in a heap keyed by    *)
(* reference, so that "the same array" and "an equal array" differ.        *)
(***************************************************************************)
EXTENDS Integers, Sequences, FiniteSets, TLC

VARIABLES
    store,       \* what store.getQuads(null, null, null, null) returns, in order
    rawRows,     \* buildElementTableModel's local `rows`, before pruning
    tableModel,  \* {headers, keys, rows}; rows is a reference into heap
    heap,        \* array reference -> sequence of row records
    pc,          \* position of the program
    call,        \* the arguments of the last filterAndSortRows call
    ret,         \* the array reference that call returned
    literals,    \* the argument of the last pickBestLiteral call
    best,        \* what that call returned
    lookup,      \* the last graph accessor or classifier call and its result
    metadata,    \* what extractOntologyMetadata returned
    text,        \* the last string utility call and its result
    csv,         \* what tableModelToCsv returned
    state,       \* renderOntologyTable: sortIndex, sortDirection, currentQuery
    tbody,       \* renderOntologyTable: the cells of the table body, row by row
    event        \* renderOntologyTable: the event handled last

vars == <<store, rawRows, tableModel, heap, pc, call, ret, literals, best,
          lookup, metadata, text, csv, state, tbody, event>>

\* Bounds of the model.
MaxRows == 3
MaxQuads == 3
MaxLiterals == 3
MaxName == 4

----------------------------------------------------------------------------
\* Optional values: null / undefined is None, a present value x is Some(x).

None == <<>>
Some(x) == <<x>>
IsNone(o) == o = <<>>
Get(o) == o[1]

----------------------------------------------------------------------------
\* Strings.

EmptyString == <<>>

UpperLetters ==
    <<"A", "B", "C", "D", "E", "F", "G", "H", "I", "J", "K", "L", "M",
      "N", "O", "P", "Q", "R", "S", "T", "U", "V", "W", "X", "Y", "Z">>
LowerLetters ==
    <<"a", "b", "c", "d", "e", "f", "g", "h", "i", "j", "k", "l", "m",
      "n", "o", "p", "q", "r", "s", "t", "u", "v", "w", "x", "y", "z">>
Digits == {"0", "1", "2", "3", "4", "5", "6", "7", "8", "9"}

\* String.prototype.toLowerCase, per character.
LowerChar(c) ==
    IF \E i \in DOMAIN UpperLetters : UpperLetters[i] = c
    THEN LowerLetters[CHOOSE i \in DOMAIN UpperLetters : UpperLetters[i] = c]
    ELSE c

\* String.prototype.toUpperCase, per character.
UpperChar(c) ==
    IF \E i \in DOMAIN LowerLetters : LowerLetters[i] = c
    THEN UpperLetters[CHOOSE i \in DOMAIN LowerLetters : LowerLetters[i] = c]
    ELSE c

toLowerCase(s) == [i \in 1..Len(s) |-> LowerChar(s[i])]

\* String.prototype.includes: q occurs in s at some offset.
includes(s, q) ==
    \E d \in 0..(Len(s) - Len(q)) : SubSeq(s, d + 1, d + Len(q)) = q

\* Collation weights of String.prototype.localeCompare (root collation): the
\* letter decides first, over the whole string; case only breaks a tie, lower
\* case first.
PrimaryWeight(c) ==
    CASE LowerChar(c) = "a" -> 1
      [] LowerChar(c) = "b" -> 2
      [] LowerChar(c) = "e" -> 5
      [] LowerChar(c) = "n" -> 14
      [] OTHER -> 0

TertiaryWeight(c) == IF LowerChar(c) = c THEN 0 ELSE 1

RECURSIVE CompareWeights(_, _)
CompareWeights(x, y) ==
    IF x = <<>> THEN (IF y = <<>> THEN 0 ELSE -1)
    ELSE IF y = <<>> THEN 1
    ELSE IF Head(x) < Head(y) THEN -1
    ELSE IF Head(x) > Head(y) THEN 1
    ELSE CompareWeights(Tail(x), Tail(y))

localeCompare(a, b) ==
    LET p == CompareWeights([i \in 1..Len(a) |-> PrimaryWeight(a[i])],
                            [i \in 1..Len(b) |-> PrimaryWeight(b[i])])
    IN  IF p # 0 THEN p
        ELSE CompareWeights([i \in 1..Len(a) |-> TertiaryWeight(a[i])],
                            [i \in 1..Len(b) |-> TertiaryWeight(b[i])])

----------------------------------------------------------------------------
\* RDF terms (N3 Term: termType, value and, for a literal, language).

NamedNode(iri) == [termType |-> "NamedNode", value |-> iri, language |-> EmptyString]
BlankNode(id) == [termType |-> "BlankNode", value |-> id, language |-> EmptyString]
Quad(s, p, o, g) == [subject |-> s, predicate |-> p, object |-> o, graph |-> g]

\* The vocabulary (NS.rdf + 'type', ...): each IRI is a string of one token.
RdfType == <<"http://www.w3.org/1999/02/22-rdf-syntax-ns#type">>
RdfsLabel == <<"http://www.w3.org/2000/01/rdf-schema#label">>
RdfsSubClassOf == <<"http://www.w3.org/2000/01/rdf-schema#subClassOf">>
RdfsSubPropertyOf == <<"http://www.w3.org/2000/01/rdf-schema#subPropertyOf">>
RdfsIsDefinedBy == <<"http://www.w3.org/2000/01/rdf-schema#isDefinedBy">>
OwlClass == <<"http://www.w3.org/2002/07/owl#Class">>
OwlNamedIndividual == <<"http://www.w3.org/2002/07/owl#NamedIndividual">>
OwlObjectProperty == <<"http://www.w3.org/2002/07/owl#ObjectProperty">>
OwlDatatypeProperty == <<"http://www.w3.org/2002/07/owl#DatatypeProperty">>
OwlAnnotationProperty == <<"http://www.w3.org/2002/07/owl#AnnotationProperty">>
OwlOntology == <<"http://www.w3.org/2002/07/owl#Ontology">>
DcTitle == <<"http://purl.org/dc/elements/1.1/title">>
DctermsTitle == <<"http://purl.org/dc/terms/title">>
DctermsBibliographicCitation == <<"http://purl.org/dc/terms/bibliographicCitation">>
SkosDefinition == <<"http://www.w3.org/2004/02/skos/core#definition">>
SkosPrefLabel == <<"http://www.w3.org/2004/02/skos/core#prefLabel">>
SkosAltLabel == <<"http://www.w3.org/2004/02/skos/core#altLabel">>
OboIAO_0000111 == <<"http://purl.obolibrary.org/obo/IAO_0000111">>
OboIAO_0000115 == <<"http://purl.obolibrary.org/obo/IAO_0000115">>
OboIAO_0000118 == <<"http://purl.obolibrary.org/obo/IAO_0000118">>
OboIAO_0000119 == <<"http://purl.obolibrary.org/obo/IAO_0000119">>
OboIAO_0000606 == <<"http://purl.obolibrary.org/obo/IAO_0000606">>
CcoDefinition == <<"http://www.ontologyrepository.com/CommonCoreOntologies/definition">>
CcoAlternativeLabel == <<"http://www.ontologyrepository.com/CommonCoreOntologies/alternative_label">>
CcoAcronym == <<"http://www.ontologyrepository.com/CommonCoreOntologies/acronym">>
CcoDefinitionSource == <<"http://www.ontologyrepository.com/CommonCoreOntologies/definition_source">>
CcoDoctrinalSource == <<"http://www.ontologyrepository.com/CommonCoreOntologies/doctrinal_source">>
Cco2Ont00001745 == <<"https://www.commoncoreontologies.org/ont00001745">>
Cco2Ont00001753 == <<"https://www.commoncoreontologies.org/ont00001753">>
Cco2Ont00001754 == <<"https://www.commoncoreontologies.org/ont00001754">>
Cco2Ont00001760 == <<"https://www.commoncoreontologies.org/ont00001760">>
OwlVersionIRI == <<"http://www.w3.org/2002/07/owl#versionIRI">>
OwlVersionInfo == <<"http://www.w3.org/2002/07/owl#versionInfo">>
DctermsHasVersion == <<"http://purl.org/dc/terms/hasVersion">>
DctermsDescription == <<"http://purl.org/dc/terms/description">>
DcDescription == <<"http://purl.org/dc/elements/1.1/description">>
DctermsLicense == <<"http://purl.org/dc/terms/license">>
DctermsRights == <<"http://purl.org/dc/terms/rights">>
DcRights == <<"http://purl.org/dc/elements/1.1/rights">>
DctermsAccessRights == <<"http://purl.org/dc/terms/accessRights">>
DctermsRightsHolder == <<"http://purl.org/dc/terms/rightsHolder">>

\* term.termType === 'BlankNode'
isBlankNode(term) == term.termType = "BlankNode"
Literal(value, language) == [termType |-> "Literal", value |-> value, language |-> language]

\* row[key] ?? ''
FieldOrEmpty(row, key) == IF key \in DOMAIN row THEN row[key] ELSE EmptyString

MapSubjectOf(quads) == [i \in DOMAIN quads |-> quads[i].subject]

\* Array.prototype.find, given the elements that pass its test in order: the
\* first of them, if any.
FirstOrNone(passing) == IF passing = <<>> THEN None ELSE Some(passing[1])

----------------------------------------------------------------------------
\* pickBestLiteral.

\* l.language.toLowerCase() === 'en'
\* (Variant: the tag is compared as written.)
IsEnglishExactCase(l) == l.language = <<"e", "n">>
IsEnglish(l) == toLowerCase(l.language) = <<"e", "n">>

\* l.language is truthy: a non-empty tag.
HasLanguage(l) == l.language # EmptyString

pickBestLiteral(lits) ==
    IF IsNone(lits) \/ Len(Get(lits)) = 0 THEN None
    ELSE LET withLang == SelectSeq(Get(lits), HasLanguage)
             en == FirstOrNone(SelectSeq(withLang, IsEnglish))
             noLang == FirstOrNone(SelectSeq(Get(lits), LAMBDA l : ~HasLanguage(l)))
         IN  IF ~IsNone(en) THEN en
             ELSE IF ~IsNone(noLang) THEN noLang
             ELSE Some(Get(lits)[1])

----------------------------------------------------------------------------
\* Graph accessors.  A store is the sequence of its quads in the order
\* getQuads returns them.

Range(seq) == {seq[i] : i \in DOMAIN seq}

\* new Set() filled by add(), then Array.from: first occurrences, in order.
\* (Variant: a plain array, every occurrence kept.)
KeepOccurrences(seq) == seq
RECURSIVE Dedup(_)
Dedup(seq) ==
    IF seq = <<>> THEN <<>>
    ELSE LET init == Dedup(SubSeq(seq, 1, Len(seq) - 1))
             x == seq[Len(seq)]
         IN  IF x \in Range(init) THEN init ELSE Append(init, x)

MapObject(quads) == [i \in DOMAIN quads |-> quads[i].object]
MapValue(terms) == [i \in DOMAIN terms |-> terms[i].value]

getQuadsForSubject(st, subjectIri) ==
    SelectSeq(st, LAMBDA q : /\ q.subject.termType = "NamedNode"
                             /\ q.subject.value = subjectIri)

\* The objects of kind termType that the subject's quads give predicate p.
ObjectsOf(subjectQuads, p, termType) ==
    MapObject(SelectSeq(subjectQuads,
                        LAMBDA q : /\ q.predicate.termType = "NamedNode"
                                   /\ q.predicate.value = p
                                   /\ q.object.termType = termType))

\* The literal of the first predicate that has one, by pickBestLiteral.
\* (Variant: pickBestLiteral over the literals of all the predicates together.)
PreferredLiteralAcrossPredicates(subjectQuads, predicateIris) ==
    LET picked == pickBestLiteral(Some(MapObject(SelectSeq(subjectQuads,
                      LAMBDA q : /\ q.predicate.termType = "NamedNode"
                                 /\ q.predicate.value \in Range(predicateIris)
                                 /\ q.object.termType = "Literal"))))
    IN  IF ~IsNone(picked) THEN Some(Get(picked).value) ELSE None
RECURSIVE PreferredLiteralIn(_, _)
PreferredLiteralIn(subjectQuads, predicateIris) ==
    IF predicateIris = <<>> THEN None
    ELSE LET picked == pickBestLiteral(Some(ObjectsOf(subjectQuads, Head(predicateIris),
                                                     "Literal")))
         IN  IF ~IsNone(picked) THEN Some(Get(picked).value)
             ELSE PreferredLiteralIn(subjectQuads, Tail(predicateIris))

getPreferredLiteralForPredicates(st, subjectIri, predicateIris) ==
    PreferredLiteralIn(getQuadsForSubject(st, subjectIri), predicateIris)

\* The first IRI object of the first predicate that has one.
\* (Variant: the first object of any kind of any of the predicates.)
PreferredObjectIn(subjectQuads, predicateIris) ==
    LET objects == MapObject(SelectSeq(subjectQuads,
                       LAMBDA q : /\ q.predicate.termType = "NamedNode"
                                  /\ q.predicate.value \in Range(predicateIris)))
    IN  IF objects # <<>> THEN Some(objects[1].value) ELSE None
RECURSIVE PreferredIriIn(_, _)
PreferredIriIn(subjectQuads, predicateIris) ==
    IF predicateIris = <<>> THEN None
    ELSE LET iris == ObjectsOf(subjectQuads, Head(predicateIris), "NamedNode")
         IN  IF iris # <<>> THEN Some(iris[1].value)
             ELSE PreferredIriIn(subjectQuads, Tail(predicateIris))

getPreferredIriForPredicates(st, subjectIri, predicateIris) ==
    PreferredIriIn(getQuadsForSubject(st, subjectIri), predicateIris)

getLiteralArrayForPredicates(st, subjectIri, predicateIris) ==
    Dedup(MapValue(MapObject(SelectSeq(getQuadsForSubject(st, subjectIri),
        LAMBDA q : /\ q.predicate.termType = "NamedNode"
                   /\ q.predicate.value \in Range(predicateIris)
                   /\ q.object.termType = "Literal"))))

getIriArrayForPredicates(st, subjectIri, predicateIris) ==
    Dedup(MapValue(MapObject(SelectSeq(getQuadsForSubject(st, subjectIri),
        LAMBDA q : /\ q.predicate.termType = "NamedNode"
                   /\ q.predicate.value \in Range(predicateIris)
                   /\ q.object.termType = "NamedNode"
                   /\ ~isBlankNode(q.object)))))

getAnyArrayForPredicates(st, subjectIri, predicateIris) ==
    Dedup(MapValue(MapObject(SelectSeq(getQuadsForSubject(st, subjectIri),
        LAMBDA q : /\ q.predicate.termType = "NamedNode"
                   /\ q.predicate.value \in Range(predicateIris)
                   /\ q.object.termType \in {"Literal", "NamedNode"}))))

----------------------------------------------------------------------------
\* getOntologySubjectIri and extractOntologyMetadata.

\* The test of the find: an rdf:type quad whose object is the IRI owl:Ontology.
\* (Variant: any rdf:type quad whose object is an IRI.)
IsIriTypeQuad(q) ==
    /\ q.predicate.termType = "NamedNode"
    /\ q.predicate.value = RdfType
    /\ q.object.termType = "NamedNode"
IsOntologyTypeQuad(q) ==
    /\ q.predicate.termType = "NamedNode"
    /\ q.predicate.value = RdfType
    /\ q.object.termType = "NamedNode"
    /\ q.object.value = OwlOntology

getOntologySubjectIri(st) ==
    LET candidate == FirstOrNone(SelectSeq(st, IsOntologyTypeQuad))
    IN  IF IsNone(candidate) THEN None ELSE Some(Get(candidate).subject.value)

NoMetadata ==
    [ontologyIri |-> None, ontologyName |-> None, versionIri |-> None,
     versionInfo |-> None, description |-> None, license |-> None,
     rightsHolder |-> None]

extractOntologyMetadata(st) ==
    LET ontologyIri == getOntologySubjectIri(st)
    IN  IF IsNone(ontologyIri) \/ Get(ontologyIri) = EmptyString THEN NoMetadata
        ELSE LET S == Get(ontologyIri)
             IN  [ontologyIri |-> Some(S),
                  ontologyName |-> getPreferredLiteralForPredicates(st, S,
                                       <<RdfsLabel, DctermsTitle, DcTitle>>),
                  versionIri |-> getPreferredIriForPredicates(st, S,
                                     <<OwlVersionIRI, DctermsHasVersion>>),
                  versionInfo |-> getPreferredLiteralForPredicates(st, S,
                                      <<OwlVersionInfo, DctermsHasVersion>>),
                  description |-> getPreferredLiteralForPredicates(st, S,
                                      <<SkosDefinition, DctermsDescription, DcDescription>>),
                  license |-> getPreferredIriForPredicates(st, S,
                                  <<DctermsLicense, DctermsRights, DcRights,
                                    DctermsAccessRights>>),
                  rightsHolder |-> getPreferredLiteralForPredicates(st, S,
                                       <<DctermsRightsHolder>>)]

----------------------------------------------------------------------------
\* shouldIncludeElementSubject.

\* (Variant: owl:Ontology is one of them.)
interestingTypesWithOntology ==
    <<OwlClass, OwlNamedIndividual, OwlObjectProperty, OwlDatatypeProperty,
      OwlAnnotationProperty, OwlOntology>>
interestingTypes ==
    <<OwlClass, OwlNamedIndividual, OwlObjectProperty, OwlDatatypeProperty,
      OwlAnnotationProperty>>

\* The test of the types filter: an rdf:type quad whose object is an IRI.
\* (Variant: the kind of the object is not looked at.)
IsTypeQuadAnyObject(q) ==
    /\ q.predicate.termType = "NamedNode"
    /\ q.predicate.value = RdfType
IsTypeQuad(q) ==
    /\ q.predicate.termType = "NamedNode"
    /\ q.predicate.value = RdfType
    /\ q.object.termType = "NamedNode"

\* subject is None for a missing (null or undefined) argument.
shouldIncludeElementSubject(st, subject) ==
    IF IsNone(subject) \/ Get(subject).termType # "NamedNode" THEN FALSE
    ELSE LET quadsForSubject == SelectSeq(st, LAMBDA q : q.subject = Get(subject))
             types == MapValue(MapObject(SelectSeq(quadsForSubject, IsTypeQuad)))
         IN  \E i \in DOMAIN types : types[i] \in Range(interestingTypes)

----------------------------------------------------------------------------
\* buildElementTableModel.

Whitespace == {" ", "\t", "\n"}

\* String.prototype.trim
RECURSIVE trim(_)
trim(s) ==
    IF s = <<>> THEN s
    ELSE IF Head(s) \in Whitespace THEN trim(Tail(s))
    ELSE IF s[Len(s)] \in Whitespace THEN trim(SubSeq(s, 1, Len(s) - 1))
    ELSE s

\* Array.prototype.join('; ')
Separator == <<";", " ">>
RECURSIVE join(_)
join(values) ==
    IF values = <<>> THEN EmptyString
    ELSE IF Len(values) = 1 THEN values[1]
    ELSE values[1] \o Separator \o join(Tail(values))

\* value || ''
OrEmpty(o) == IF IsNone(o) THEN EmptyString ELSE Get(o)

\* subjectTermMap: the NamedNode subjects, each once, in order of first
\* appearance (Map.set on a present key keeps its place).
\* (Variant: one entry per quad, in an array instead of a Map.)
CollectSubjectsPerQuad(st) ==
    MapSubjectOf(SelectSeq(st, LAMBDA q : /\ ~isBlankNode(q.subject)
                                          /\ q.subject.termType = "NamedNode"))
CollectSubjects(st) ==
    Dedup(MapSubjectOf(SelectSeq(st, LAMBDA q : /\ ~isBlankNode(q.subject)
                                                /\ q.subject.termType = "NamedNode")))

elementSubjects(st) ==
    SelectSeq(CollectSubjects(st), LAMBDA subj : shouldIncludeElementSubject(st, Some(subj)))

\* The row of one subject, all eleven fields.
BuildRow(st, subj) ==
    LET iri == subj.value
    IN  [iri |-> iri,
         label |-> OrEmpty(getPreferredLiteralForPredicates(st, iri,
                      <<RdfsLabel, DctermsTitle, DcTitle>>)),
         type |-> join(getIriArrayForPredicates(st, iri, <<RdfType>>)),
         definition |-> OrEmpty(getPreferredLiteralForPredicates(st, iri,
                      <<SkosDefinition, OboIAO_0000115, CcoDefinition>>)),
         preferredLabel |-> OrEmpty(getPreferredLiteralForPredicates(st, iri,
                      <<SkosPrefLabel, OboIAO_0000111>>)),
         alternativeLabel |-> join(getLiteralArrayForPredicates(st, iri,
                      <<SkosAltLabel, OboIAO_0000118, CcoAlternativeLabel>>)),
         acronym |-> join(getLiteralArrayForPredicates(st, iri,
                      <<CcoAcronym, OboIAO_0000606, Cco2Ont00001753>>)),
         subClassOf |-> join(getIriArrayForPredicates(st, iri, <<RdfsSubClassOf>>)),
         subPropertyOf |-> join(getIriArrayForPredicates(st, iri, <<RdfsSubPropertyOf>>)),
         definitionSource |-> join(getAnyArrayForPredicates(st, iri,
                      <<DctermsBibliographicCitation, OboIAO_0000119, Cco2Ont00001754,
                        CcoDefinitionSource, Cco2Ont00001745, CcoDoctrinalSource>>)),
         isCuratedIn |-> OrEmpty(getPreferredIriForPredicates(st, iri,
                      <<Cco2Ont00001760, RdfsIsDefinedBy>>))]

BuildRows(st) ==
    LET subjects == elementSubjects(st)
    IN  [i \in DOMAIN subjects |-> BuildRow(st, subjects[i])]

\* (Variant: two display headers change places.)
allHeadersLabelsSwapped ==
    <<"iri", "label", "type", "definition", "alternative label", "preferred label",
      "acronym", "rdfs:subClassOf", "rdfs:subPropertyOf", "definition source",
      "is curated in">>
allHeaders ==
    <<"iri", "label", "type", "definition", "preferred label", "alternative label",
      "acronym", "rdfs:subClassOf", "rdfs:subPropertyOf", "definition source",
      "is curated in">>

allKeys ==
    <<"iri", "label", "type", "definition", "preferredLabel", "alternativeLabel",
      "acronym", "subClassOf", "subPropertyOf", "definitionSource", "isCuratedIn">>

\* One keep flag: iri always, another column when some row has a value for it
\* that trims to something.  (Variant: the value is not trimmed.)
KeepFlagNoTrim(rows, key) ==
    IF key = "iri" THEN TRUE
    ELSE \E i \in DOMAIN rows : FieldOrEmpty(rows[i], key) # EmptyString
\* (Variant: every row, not some row, has such a value.)
KeepFlagEveryRow(rows, key) ==
    IF key = "iri" THEN TRUE
    ELSE \A i \in DOMAIN rows : trim(FieldOrEmpty(rows[i], key)) # EmptyString
KeepFlag(rows, key) ==
    IF key = "iri" THEN TRUE
    ELSE \E i \in DOMAIN rows : trim(FieldOrEmpty(rows[i], key)) # EmptyString

keepFlags(rows) == [i \in DOMAIN allKeys |-> KeepFlag(rows, allKeys[i])]

\* all.filter((_, i) => keepFlags[i])
RECURSIVE FilterByFlags(_, _)
FilterByFlags(all, flags) ==
    IF all = <<>> THEN <<>>
    ELSE (IF Head(flags) THEN <<Head(all)>> ELSE <<>>)
         \o FilterByFlags(Tail(all), Tail(flags))

\* One pruned row: the surviving keys only.
\* (Variant: the row is returned unpruned.)
PruneRowKeepAll(r, keys) == r
PruneRow(r, keys) == [k \in Range(keys) |-> FieldOrEmpty(r, k)]

\* The whole function: the unpruned rows and the model it returns.
buildElementTableModel(st) ==
    LET rows == BuildRows(st)
        flags == keepFlags(rows)
        headers == FilterByFlags(allHeaders, flags)
        keys == FilterByFlags(allKeys, flags)
    IN  [rows |-> rows,
         headers |-> headers,
         keys |-> keys,
         prunedRows |-> [i \in DOMAIN rows |-> PruneRow(rows[i], keys)]]

----------------------------------------------------------------------------
\* Arrays in the heap.

\* A new array gets the first reference not in use.
Alloc(h) == CHOOSE r \in 1..(Cardinality(DOMAIN h) + 1) :
                /\ r \notin DOMAIN h
                /\ \A s \in 1..(r - 1) : s \in DOMAIN h

Restrict(h, refs) == [r \in (DOMAIN h) \cap refs |-> h[r]]

----------------------------------------------------------------------------
\* filterAndSortRows.

\* (query || '').toLowerCase()
NormalizeQuery(query) ==
    toLowerCase(IF IsNone(query) THEN EmptyString ELSE Get(query))

\* Object.values(row).some(v => String(v).toLowerCase().includes(q))
\* (Variant: the values are not lower-cased.)
RowMatchesCaseSensitive(row, q) ==
    \E k \in DOMAIN row : includes(row[k], q)
RowMatches(row, q) ==
    \E k \in DOMAIN row : includes(toLowerCase(row[k]), q)

\* The filter step: model.rows itself when q is empty, else a new array.
FilterRows(h, m, q) ==
    IF q = EmptyString
    THEN [heap |-> h, ref |-> m.rows]
    ELSE LET r == Alloc(h)
         IN  [heap |-> h @@ (r :> SelectSeq(h[m.rows], LAMBDA row : RowMatches(row, q))),
              ref |-> r]

\* The sort key: None when sorting is skipped (index null, negative, beyond the
\* headers, or naming no key).
\* (Variant: an index out of range is clamped into range instead.)
ResolveSortKeyClamped(m, sortIndex) ==
    IF Len(m.keys) = 0 THEN None
    ELSE IF IsNone(sortIndex) \/ Get(sortIndex) < 0 THEN Some(m.keys[1])
    ELSE IF Get(sortIndex) >= Len(m.keys) THEN Some(m.keys[Len(m.keys)])
    ELSE Some(m.keys[Get(sortIndex) + 1])
ResolveSortKey(m, sortIndex) ==
    IF IsNone(sortIndex) \/ Get(sortIndex) < 0 \/ Get(sortIndex) >= Len(m.headers)
    THEN None
    ELSE IF (Get(sortIndex) + 1) \notin DOMAIN m.keys \/ m.keys[Get(sortIndex) + 1] = ""
         THEN None
         ELSE Some(m.keys[Get(sortIndex) + 1])

\* The comparator handed to Array.prototype.sort.
\* (Variant: the direction is ignored.)
CompareRowsIgnoringDirection(a, b, key, sortDirection) ==
    localeCompare(FieldOrEmpty(a, key), FieldOrEmpty(b, key))
CompareRows(a, b, key, sortDirection) ==
    LET cmp == localeCompare(FieldOrEmpty(a, key), FieldOrEmpty(b, key))
    IN  IF sortDirection = "asc" THEN cmp ELSE -cmp

\* Array.prototype.sort: a stable sort.  x goes after every element that
\* does not compare greater than it.
\* (Variant: x goes before the elements it compares equal to.)
RECURSIVE InsertRowBeforeTies(_, _, _, _)
InsertRowBeforeTies(sorted, x, key, sortDirection) ==
    IF sorted = <<>> THEN <<x>>
    ELSE IF CompareRows(Head(sorted), x, key, sortDirection) < 0
         THEN <<Head(sorted)>> \o InsertRowBeforeTies(Tail(sorted), x, key, sortDirection)
         ELSE <<x>> \o sorted
RECURSIVE InsertRow(_, _, _, _)
InsertRow(sorted, x, key, sortDirection) ==
    IF sorted = <<>> THEN <<x>>
    ELSE IF CompareRows(Head(sorted), x, key, sortDirection) <= 0
         THEN <<Head(sorted)>> \o InsertRow(Tail(sorted), x, key, sortDirection)
         ELSE <<x>> \o sorted

RECURSIVE SortRows(_, _, _)
SortRows(rows, key, sortDirection) ==
    IF rows = <<>> THEN <<>>
    ELSE InsertRow(SortRows(SubSeq(rows, 1, Len(rows) - 1), key, sortDirection),
                   rows[Len(rows)], key, sortDirection)

\* [...filtered]: a new array with the same rows.
\* (Variant: no copy, the array itself is sorted.)
SpreadInPlace(h, ref) == [heap |-> h, ref |-> ref]
Spread(h, ref) ==
    LET r == Alloc(h) IN [heap |-> h @@ (r :> h[ref]), ref |-> r]

\* The whole function: the heap it leaves and the reference it returns.
filterAndSortRows(h, m, query, sortIndex, sortDirection) ==
    LET q == NormalizeQuery(query)
        filtered == FilterRows(h, m, q)
        key == ResolveSortKey(m, sortIndex)
    IN  IF IsNone(key)
        THEN [heap |-> filtered.heap, ret |-> filtered.ref]
        ELSE LET sorted == Spread(filtered.heap, filtered.ref)
             IN  [heap |-> [sorted.heap EXCEPT
                              ![sorted.ref] = SortRows(@, Get(key), sortDirection)],
                  ret |-> sorted.ref]

----------------------------------------------------------------------------
\* Inputs of the filter/sort machine: two-column models as the tests build
\* them, whose values differ in case, share prefixes and repeat.

IriValues == { <<"b">>, <<"A", "b">> }
LabelValues == { <<"a">>, <<"A">>, <<"b", "a">> }
QueryValues == { None, Some(<<>>), Some(<<"A">>), Some(<<"a", "b">>),
                 Some(<<"B", "a">>), Some(<<"n">>) }
Directions == { "asc", "desc" }

SampleRows == [iri : IriValues, label : LabelValues]

RowSeqs(n) == UNION { [1..k -> SampleRows] : k \in 0..n }

SampleHeaders == <<"iri", "label">>
SampleKeys == <<"iri", "label">>

ModelRowsRef == 1

NoCall == [query |-> None, sortIndex |-> None, sortDirection |-> "asc", rows |-> <<>>]
NoModel == [headers |-> <<>>, keys |-> <<>>, rows |-> ModelRowsRef]

InitFilterSort ==
    /\ \E rows \in RowSeqs(MaxRows) :
          /\ tableModel = [headers |-> SampleHeaders, keys |-> SampleKeys,
                           rows |-> ModelRowsRef]
          /\ heap = (ModelRowsRef :> rows)
    /\ pc = "rendered"
    /\ call = NoCall
    /\ ret = ModelRowsRef
    /\ store = <<>>
    /\ rawRows = <<>>
    /\ literals = None
    /\ best = None
    /\ lookup = None
    /\ metadata = None
    /\ text = None
    /\ csv = None
    /\ state = None
    /\ tbody = None
    /\ event = None

\* One call of filterAndSortRows on the model, as rerenderBody and the export
\* handler make it; an array the call built and did not return is garbage.
FilterSortCall(query, sortIndex, sortDirection) ==
    /\ pc = "rendered"
    /\ LET r == filterAndSortRows(heap, tableModel, query, sortIndex, sortDirection)
       IN  /\ heap' = Restrict(r.heap, {tableModel.rows, r.ret})
           /\ ret' = r.ret
           /\ call' = [query |-> query, sortIndex |-> sortIndex,
                       sortDirection |-> sortDirection, rows |-> heap[tableModel.rows]]
    /\ pc' = "returned"
    /\ UNCHANGED <<tableModel, store, rawRows, literals, best, lookup, metadata, text, csv, state, tbody, event>>

\* The caller is done with the rows it was given (rerenderBody returns).
ReleaseRows ==
    /\ pc = "returned"
    /\ pc' = "rendered"
    /\ heap' = Restrict(heap, {tableModel.rows})
    /\ ret' = tableModel.rows
    /\ call' = NoCall
    /\ UNCHANGED <<tableModel, store, rawRows, literals, best, lookup, metadata, text, csv, state, tbody, event>>

NextFilterSort ==
    \/ ReleaseRows
    \/ \E query \in QueryValues, sortDirection \in Directions :
        \E sortIndex \in {None} \cup {Some(i) : i \in -1..Len(tableModel.headers)} :
            FilterSortCall(query, sortIndex, sortDirection)

SpecFilterSort == InitFilterSort /\ [][NextFilterSort]_vars

----------------------------------------------------------------------------
\* The literal selector on its own: lists of literals as the tests build
\* them, tagged 'en' in either case, tagged otherwise, or untagged.

LanguageTags == { EmptyString, <<"e", "n">>, <<"E", "N">>, <<"f", "r">> }
LiteralValues == { <<"x">>, <<"y">> }
SampleLiterals == { Literal(v, t) : v \in LiteralValues, t \in LanguageTags }
LiteralLists(n) == UNION { [1..k -> SampleLiterals] : k \in 0..n }

InitLiteral ==
    /\ pc = "idle"
    /\ literals = None
    /\ best = None
    /\ store = <<>>
    /\ rawRows = <<>>
    /\ tableModel = NoModel
    /\ heap = (ModelRowsRef :> <<>>)
    /\ call = NoCall
    /\ ret = ModelRowsRef
    /\ lookup = None
    /\ metadata = None
    /\ text = None
    /\ csv = None
    /\ state = None
    /\ tbody = None
    /\ event = None

\* const best = pickBestLiteral(literals)
PickCall(lits) ==
    /\ pc = "idle"
    /\ pc' = "picked"
    /\ literals' = lits
    /\ best' = pickBestLiteral(lits)
    /\ UNCHANGED <<store, rawRows, tableModel, heap, call, ret, lookup, metadata, text, csv, state, tbody, event>>

\* The caller has used the result; the next list is looked at.
PickDone ==
    /\ pc = "picked"
    /\ pc' = "idle"
    /\ literals' = None
    /\ best' = None
    /\ UNCHANGED <<store, rawRows, tableModel, heap, call, ret, lookup, metadata, text, csv, state, tbody, event>>

NextLiteral ==
    \/ PickDone
    \/ \E lits \in {None} \cup {Some(ls) : ls \in LiteralLists(MaxLiterals)} :
          PickCall(lits)

SpecLiteral == InitLiteral /\ [][NextLiteral]_vars

----------------------------------------------------------------------------
\* Loading a document: the parser adds quads to a new store, then the table
\* model is built from it once.  The quads are drawn from a small vocabulary
\* with two named subjects and a blank node, typed or not, in one graph or
\* two, with labels that are tagged, untagged or blank.

ExA == <<"http://example.org/A">>
ExB == <<"http://example.org/B">>
ExParent == <<"http://example.org/Parent">>
Blank0 == <<"b0">>

DefaultGraph == ""
NamedGraph == "http://example.org/g1"

SampleQuads ==
    { Quad(NamedNode(ExA), NamedNode(RdfType), NamedNode(OwlClass), DefaultGraph),
      Quad(NamedNode(ExA), NamedNode(RdfType), NamedNode(OwlClass), NamedGraph),
      Quad(NamedNode(ExA), NamedNode(RdfType), Literal(OwlClass, EmptyString), DefaultGraph),
      Quad(NamedNode(ExA), NamedNode(RdfsLabel), Literal(<<"x">>, <<"e", "n">>), DefaultGraph),
      Quad(NamedNode(ExA), NamedNode(RdfsLabel), Literal(<<" ">>, EmptyString), DefaultGraph),
      Quad(NamedNode(ExA), NamedNode(RdfsSubClassOf), NamedNode(ExParent), DefaultGraph),
      Quad(NamedNode(ExA), NamedNode(RdfsSubClassOf), BlankNode(Blank0), DefaultGraph),
      Quad(NamedNode(ExA), NamedNode(SkosAltLabel), Literal(<<"x">>, EmptyString), DefaultGraph),
      Quad(NamedNode(ExA), NamedNode(SkosAltLabel), Literal(<<"y">>, <<"e", "n">>), DefaultGraph),
      Quad(NamedNode(ExB), NamedNode(RdfType), NamedNode(OwlObjectProperty), DefaultGraph),
      Quad(NamedNode(ExB), NamedNode(RdfType), NamedNode(OwlOntology), DefaultGraph),
      Quad(NamedNode(ExB), NamedNode(RdfsLabel), Literal(<<"y">>, <<"f", "r">>), DefaultGraph),
      Quad(NamedNode(ExB), NamedNode(DctermsTitle), Literal(<<"x">>, <<"E", "N">>), DefaultGraph),
      Quad(NamedNode(ExB), NamedNode(RdfsIsDefinedBy), NamedNode(ExA), DefaultGraph),
      Quad(BlankNode(Blank0), NamedNode(RdfType), NamedNode(OwlClass), DefaultGraph),
      Quad(BlankNode(Blank0), NamedNode(RdfsLabel), Literal(<<"x">>, <<"e", "n">>), DefaultGraph),
      Quad(NamedNode(ExA), NamedNode(OboIAO_0000118), Literal(<<"x">>, <<"e", "n">>), DefaultGraph),
      Quad(NamedNode(ExA), NamedNode(DctermsBibliographicCitation), NamedNode(ExParent), DefaultGraph) }

InitBuild ==
    /\ pc = "loading"
    /\ store = <<>>
    /\ rawRows = <<>>
    /\ tableModel = NoModel
    /\ heap = (ModelRowsRef :> <<>>)
    /\ call = NoCall
    /\ ret = ModelRowsRef
    /\ literals = None
    /\ best = None
    /\ lookup = None
    /\ metadata = None
    /\ text = None
    /\ csv = None
    /\ state = None
    /\ tbody = None
    /\ event = None

\* store.addQuads(quads): a quad the store holds already is not added again.
AddQuad(q) ==
    /\ pc = "loading"
    /\ Len(store) < MaxQuads
    /\ q \notin Range(store)
    /\ store' = Append(store, q)
    /\ UNCHANGED <<rawRows, tableModel, heap, pc, call, ret, literals, best, lookup, metadata, text, csv, state, tbody, event>>

\* const model = buildElementTableModel(store)
Build ==
    /\ pc = "loading"
    /\ LET m == buildElementTableModel(store)
       IN  /\ rawRows' = m.rows
           /\ tableModel' = [headers |-> m.headers, keys |-> m.keys, rows |-> ModelRowsRef]
           /\ heap' = (ModelRowsRef :> m.prunedRows)
    /\ pc' = "built"
    /\ UNCHANGED <<store, call, ret, literals, best, lookup, metadata, text, csv, state, tbody, event>>

NextBuild ==
    \/ Build
    \/ \E q \in SampleQuads : AddQuad(q)

SpecBuild == InitBuild /\ [][NextBuild]_vars

----------------------------------------------------------------------------
\* toPascalCase.

\* The class [A-Za-z0-9].
IsAlnum(c) ==
    \/ \E i \in DOMAIN UpperLetters : UpperLetters[i] = c
    \/ \E i \in DOMAIN LowerLetters : LowerLetters[i] = c
    \/ c \in Digits

\* The string after its leading run of characters outside [A-Za-z0-9].
RECURSIVE SkipNonAlnum(_)
SkipNonAlnum(s) ==
    IF s = <<>> \/ IsAlnum(Head(s)) THEN s ELSE SkipNonAlnum(Tail(s))

\* replace(/[^A-Za-z0-9]+/g, ' '): one space for each such run.
RECURSIVE ReplaceNonAlnumRuns(_)
ReplaceNonAlnumRuns(s) ==
    IF s = <<>> THEN <<>>
    ELSE IF IsAlnum(Head(s)) THEN <<Head(s)>> \o ReplaceNonAlnumRuns(Tail(s))
    ELSE <<" ">> \o ReplaceNonAlnumRuns(SkipNonAlnum(s))

\* The string after its leading run of white space.
RECURSIVE SkipWhitespace(_)
SkipWhitespace(s) ==
    IF s = <<>> \/ Head(s) \notin Whitespace THEN s ELSE SkipWhitespace(Tail(s))

\* The string up to its first white space.
RECURSIVE UpToWhitespace(_)
UpToWhitespace(s) ==
    IF s = <<>> \/ Head(s) \in Whitespace THEN <<>>
    ELSE <<Head(s)>> \o UpToWhitespace(Tail(s))

\* split(/\s+/): the pieces between runs of white space; a string without
\* white space, the empty string too, is its own single piece.
RECURSIVE split(_)
split(s) ==
    LET piece == UpToWhitespace(s)
        rest == SubSeq(s, Len(piece) + 1, Len(s))
    IN  IF rest = <<>> THEN <<piece>>
        ELSE <<piece>> \o split(SkipWhitespace(rest))

\* p.charAt(0).toUpperCase() + p.slice(1)
\* (Variant: the part as it is.)
KeepPart(p) == p
Capitalize(p) == IF p = <<>> THEN <<>> ELSE <<UpperChar(p[1])>> \o Tail(p)

\* join('')
RECURSIVE Concat(_)
Concat(parts) == IF parts = <<>> THEN <<>> ELSE Head(parts) \o Concat(Tail(parts))

Ontology == <<"O", "n", "t", "o", "l", "o", "g", "y">>

\* name is None for null or undefined.
toPascalCase(name) ==
    IF IsNone(name) \/ Get(name) = EmptyString THEN Ontology
    ELSE LET parts == split(trim(ReplaceNonAlnumRuns(Get(name))))
         IN  IF Len(parts) = 0 THEN Ontology
             ELSE Concat([i \in DOMAIN parts |-> Capitalize(parts[i])])

----------------------------------------------------------------------------
\* detectRdfFormatFromFilename.

endsWith(s, suffix) ==
    /\ Len(suffix) <= Len(s)
    /\ SubSeq(s, Len(s) - Len(suffix) + 1, Len(s)) = suffix

\* (filename || '').toLowerCase()
\* (Variant: the name as written.)
FilenameAsWritten(filename) == OrEmpty(filename)
LowerFilename(filename) == toLowerCase(OrEmpty(filename))

detectRdfFormatFromFilename(filename) ==
    LET lower == LowerFilename(filename)
    IN  IF endsWith(lower, <<".", "t", "t", "l">>) \/ endsWith(lower, <<".", "n", "3">>)
        THEN "text/turtle"
        ELSE IF endsWith(lower, <<".", "n", "t">>) THEN "application/n-triples"
        ELSE IF endsWith(lower, <<".", "n", "q">>) THEN "application/n-quads"
        ELSE IF endsWith(lower, <<".", "t", "r", "i", "g">>) THEN "application/trig"
        ELSE "text/turtle"

----------------------------------------------------------------------------
\* tableModelToCsv.  The CSV text is a sequence of tokens: a display header
\* is one token, every character of a value, a quote, a comma and a newline
\* are one token each.

Quote == "\""
Comma == ","
Newline == "\n"

\* Array.prototype.join(separator), on token sequences.
RECURSIVE joinWith(_, _)
joinWith(items, separator) ==
    IF items = <<>> THEN <<>>
    ELSE IF Len(items) = 1 THEN items[1]
    ELSE items[1] \o <<separator>> \o joinWith(Tail(items), separator)

\* String(v).replace(/"/g, '""')
\* (Variant: without the g flag, the first quote only.)
RECURSIVE EscapeFirstQuote(_)
EscapeFirstQuote(v) ==
    IF v = <<>> THEN <<>>
    ELSE IF Head(v) = Quote THEN <<Quote, Quote>> \o Tail(v)
    ELSE <<Head(v)>> \o EscapeFirstQuote(Tail(v))
RECURSIVE EscapeQuotes(_)
EscapeQuotes(v) ==
    IF v = <<>> THEN <<>>
    ELSE IF Head(v) = Quote THEN <<Quote, Quote>> \o EscapeQuotes(Tail(v))
    ELSE <<Head(v)>> \o EscapeQuotes(Tail(v))

\* One field: `"${escaped}"`
CsvField(row, key) ==
    LET v == IF key # "" THEN FieldOrEmpty(row, key) ELSE EmptyString
    IN  <<Quote>> \o EscapeQuotes(v) \o <<Quote>>

\* One data line: values.join(',')
CsvLine(keys, row) == joinWith([i \in DOMAIN keys |-> CsvField(row, keys[i])], Comma)

tableModelToCsv(model, rows) ==
    LET headerRow == joinWith([i \in DOMAIN model.headers |-> <<model.headers[i]>>], Comma)
        lines == <<headerRow>> \o [i \in DOMAIN rows |-> CsvLine(model.keys, rows[i])]
    IN  joinWith(lines, Newline)

\* The export on its own: a table model with one or three columns, and rows
\* whose values hold quotes, commas and newlines and that may lack a key.

CsvIriValues == { <<"a">>, <<"b">> }
CsvLabelValues == { EmptyString, <<"\"">>, <<"\"", "a", "\"">>, <<"a", ",", "\n">> }
CsvRows ==
    [iri : CsvIriValues] \cup [iri : CsvIriValues, label : CsvLabelValues]
CsvRowSeqs(n) == UNION { [1..k -> CsvRows] : k \in 0..n }
CsvModels ==
    { [headers |-> <<"iri">>, keys |-> <<"iri">>, rows |-> ModelRowsRef],
      [headers |-> <<"iri", "label", "rdfs:subClassOf">>,
       keys |-> <<"iri", "label", "subClassOf">>, rows |-> ModelRowsRef] }

InitCsv ==
    /\ tableModel \in CsvModels
    /\ \E rows \in CsvRowSeqs(MaxRows) : heap = (ModelRowsRef :> rows)
    /\ pc = "rendered"
    /\ call = NoCall
    /\ ret = ModelRowsRef
    /\ store = <<>>
    /\ rawRows = <<>>
    /\ literals = None
    /\ best = None
    /\ lookup = None
    /\ metadata = None
    /\ text = None
    /\ csv = None
    /\ state = None
    /\ tbody = None
    /\ event = None

\* const csv = tableModelToCsv(tableModel, rows)
ExportCsv ==
    /\ pc = "rendered"
    /\ csv' = Some(tableModelToCsv(tableModel, heap[ret]))
    /\ pc' = "exported"
    /\ UNCHANGED <<store, rawRows, tableModel, heap, call, ret, literals, best,
                   lookup, metadata, text,
                   state, tbody, event>>

NextCsv == ExportCsv

SpecCsv == InitCsv /\ [][NextCsv]_vars

----------------------------------------------------------------------------
\* The graph accessors called on their own: a store is loaded quad by quad and
\* an accessor is asked about a subject and an ordered list of predicates.
\* The quads give one subject literals in several languages under two
\* predicates, IRI, blank and literal objects under two others, and give a
\* second subject values that must never leak into the first one's answers.

AccessorQuads ==
    { Quad(NamedNode(ExA), NamedNode(RdfsLabel), Literal(<<"y">>, <<"f", "r">>), DefaultGraph),
      Quad(NamedNode(ExA), NamedNode(RdfsLabel), Literal(<<"x">>, <<"e", "n">>), DefaultGraph),
      Quad(NamedNode(ExA), NamedNode(DctermsTitle), Literal(<<"z">>, <<"e", "n">>), DefaultGraph),
      Quad(NamedNode(ExA), NamedNode(RdfsLabel), NamedNode(ExParent), DefaultGraph),
      Quad(NamedNode(ExA), NamedNode(RdfsSubClassOf), BlankNode(Blank0), DefaultGraph),
      Quad(NamedNode(ExA), NamedNode(RdfsSubClassOf), NamedNode(ExParent), DefaultGraph),
      Quad(NamedNode(ExA), NamedNode(RdfsIsDefinedBy), NamedNode(ExB), DefaultGraph),
      Quad(NamedNode(ExA), NamedNode(RdfsIsDefinedBy), Literal(ExParent, EmptyString), DefaultGraph),
      Quad(NamedNode(ExB), NamedNode(RdfsSubClassOf), NamedNode(ExA), DefaultGraph),
      Quad(NamedNode(ExB), NamedNode(RdfsLabel), Literal(<<"w">>, EmptyString), DefaultGraph) }

AccessorSubjects == { ExA, ExB }
LiteralPredicateLists == { <<RdfsLabel, DctermsTitle>>, <<DctermsTitle, RdfsLabel>> }
IriPredicateLists == { <<RdfsSubClassOf, RdfsIsDefinedBy>>, <<RdfsIsDefinedBy, RdfsSubClassOf>> }

\* getPreferredLiteralForPredicates(store, subjectIri, predicateIris)
LiteralLookup(subjectIri, predicateIris) ==
    /\ pc = "loading"
    /\ lookup' = Some([fn |-> "getPreferredLiteralForPredicates",
                       subject |-> subjectIri,
                       predicates |-> predicateIris,
                       result |-> getPreferredLiteralForPredicates(store, subjectIri,
                                                                   predicateIris)])
    /\ pc' = "looked"
    /\ UNCHANGED <<store, rawRows, tableModel, heap, call, ret, literals, best,
                   metadata, text, csv,
                   state, tbody, event>>

\* getPreferredIriForPredicates(store, subjectIri, predicateIris)
IriLookup(subjectIri, predicateIris) ==
    /\ pc = "loading"
    /\ lookup' = Some([fn |-> "getPreferredIriForPredicates",
                       subject |-> subjectIri,
                       predicates |-> predicateIris,
                       result |-> getPreferredIriForPredicates(store, subjectIri,
                                                               predicateIris)])
    /\ pc' = "looked"
    /\ UNCHANGED <<store, rawRows, tableModel, heap, call, ret, literals, best,
                   metadata, text, csv,
                   state, tbody, event>>

\* The caller drops the answer and goes on loading.
LookupDone ==
    /\ pc = "looked"
    /\ pc' = "loading"
    /\ lookup' = None
    /\ UNCHANGED <<store, rawRows, tableModel, heap, call, ret, literals, best,
                   metadata, text, csv,
                   state, tbody, event>>

NextAccessor ==
    \/ \E q \in AccessorQuads : AddQuad(q)
    \/ \E s \in AccessorSubjects, ps \in LiteralPredicateLists : LiteralLookup(s, ps)
    \/ \E s \in AccessorSubjects, ps \in IriPredicateLists : IriLookup(s, ps)
    \/ LookupDone

SpecAccessor == InitBuild /\ [][NextAccessor]_vars

----------------------------------------------------------------------------
\* shouldIncludeElementSubject called on its own, on a loaded store, with a
\* subject that is missing, an IRI, a blank node or a literal.  The quads type
\* the subjects with each of the five element types, with owl:Ontology and
\* with a literal, and name an element type under another predicate.

ClassifyQuads ==
    { Quad(NamedNode(ExA), NamedNode(RdfType), NamedNode(OwlClass), DefaultGraph),
      Quad(NamedNode(ExA), NamedNode(RdfType), Literal(OwlClass, EmptyString), DefaultGraph),
      Quad(NamedNode(ExA), NamedNode(RdfType), NamedNode(OwlOntology), DefaultGraph),
      Quad(NamedNode(ExA), NamedNode(RdfsSubClassOf), NamedNode(OwlClass), DefaultGraph),
      Quad(NamedNode(ExA), NamedNode(RdfType), NamedNode(OwlAnnotationProperty), DefaultGraph),
      Quad(NamedNode(ExB), NamedNode(RdfType), NamedNode(OwlNamedIndividual), DefaultGraph),
      Quad(NamedNode(ExB), NamedNode(RdfType), NamedNode(OwlObjectProperty), DefaultGraph),
      Quad(NamedNode(ExB), NamedNode(RdfType), NamedNode(OwlDatatypeProperty), DefaultGraph),
      Quad(BlankNode(Blank0), NamedNode(RdfType), NamedNode(OwlClass), DefaultGraph) }

ClassifySubjects ==
    { None, Some(NamedNode(ExA)), Some(NamedNode(ExB)), Some(BlankNode(Blank0)),
      Some(Literal(ExA, EmptyString)) }

\* shouldIncludeElementSubject(store, subject)
Classify(subject) ==
    /\ pc = "loading"
    /\ lookup' = Some([fn |-> "shouldIncludeElementSubject",
                       subject |-> subject,
                       predicates |-> <<>>,
                       result |-> shouldIncludeElementSubject(store, subject)])
    /\ pc' = "looked"
    /\ UNCHANGED <<store, rawRows, tableModel, heap, call, ret, literals, best,
                   metadata, text, csv,
                   state, tbody, event>>

NextClassify ==
    \/ \E q \in ClassifyQuads : AddQuad(q)
    \/ \E subject \in ClassifySubjects : Classify(subject)
    \/ LookupDone

SpecClassify == InitBuild /\ [][NextClassify]_vars

----------------------------------------------------------------------------
\* extractOntologyMetadata on a loaded store.  The quads describe a subject
\* with a name, a version, a license and a rights holder, and type it
\* owl:Ontology properly, by a literal, or under another predicate; a second
\* subject is a class and a blank node is an ontology.

MetadataQuads ==
    { Quad(NamedNode(ExB), NamedNode(RdfType), NamedNode(OwlOntology), DefaultGraph),
      Quad(NamedNode(ExB), NamedNode(RdfType), Literal(OwlOntology, EmptyString), DefaultGraph),
      Quad(NamedNode(ExB), NamedNode(RdfsIsDefinedBy), NamedNode(OwlOntology), DefaultGraph),
      Quad(NamedNode(ExA), NamedNode(RdfType), NamedNode(OwlClass), DefaultGraph),
      Quad(BlankNode(Blank0), NamedNode(RdfType), NamedNode(OwlOntology), DefaultGraph),
      Quad(NamedNode(ExB), NamedNode(RdfsLabel), Literal(<<"x">>, <<"e", "n">>), DefaultGraph),
      Quad(NamedNode(ExB), NamedNode(DctermsTitle), Literal(<<"y">>, EmptyString), DefaultGraph),
      Quad(NamedNode(ExB), NamedNode(OwlVersionIRI), NamedNode(ExParent), DefaultGraph),
      Quad(NamedNode(ExB), NamedNode(DctermsHasVersion), Literal(<<"z">>, EmptyString), DefaultGraph),
      Quad(NamedNode(ExB), NamedNode(DctermsDescription), Literal(<<"w">>, <<"f", "r">>), DefaultGraph),
      Quad(NamedNode(ExB), NamedNode(DctermsLicense), NamedNode(ExA), DefaultGraph),
      Quad(NamedNode(ExB), NamedNode(DctermsRightsHolder), Literal(<<"v">>, EmptyString), DefaultGraph) }

\* const metadata = extractOntologyMetadata(store)
ExtractMetadata ==
    /\ pc = "loading"
    /\ metadata' = Some(extractOntologyMetadata(store))
    /\ pc' = "extracted"
    /\ UNCHANGED <<store, rawRows, tableModel, heap, call, ret, literals, best,
                   lookup, text, csv,
                   state, tbody, event>>

NextMetadata ==
    \/ \E q \in MetadataQuads : AddQuad(q)
    \/ ExtractMetadata

SpecMetadata == InitBuild /\ [][NextMetadata]_vars

----------------------------------------------------------------------------
\* The string utilities called on their own: toPascalCase on a missing name
\* and on every name of up to MaxName characters that are letters of either
\* case, a digit, punctuation or a space; detectRdfFormatFromFilename on a
\* missing name and on names with every known extension in either case, with
\* near misses, and with none.

NameChars == { "a", "B", "1", "-", " " }
Names(n) == UNION { [1..k -> NameChars] : k \in 0..n }
NameArguments == { None } \cup { Some(name) : name \in Names(MaxName) }

Stems == { <<>>, <<"a">>, <<"a", ".", "n", "t">> }
Endings ==
    { <<>>, <<".", "t", "t", "l">>, <<".", "T", "T", "L">>, <<".", "T", "t", "l">>,
      <<".", "n", "3">>, <<".", "N", "3">>, <<".", "n", "t">>, <<".", "N", "T">>,
      <<".", "n", "q">>, <<".", "N", "q">>, <<".", "t", "r", "i", "g">>,
      <<".", "T", "R", "I", "G">>, <<"t", "t", "l">>, <<".", "t", "t">>,
      <<".", "n", "t", "x">>, <<".", "n", "q", ".">>, <<".", "e", "x", "t">>,
      <<".", "t", "r", "i", "g", ".", "n", "q">> }
FilenameArguments == { None } \cup { Some(stem \o ending) : stem \in Stems, ending \in Endings }

InitText ==
    /\ pc = "idle"
    /\ text = None
    /\ store = <<>>
    /\ rawRows = <<>>
    /\ tableModel = NoModel
    /\ heap = (ModelRowsRef :> <<>>)
    /\ call = NoCall
    /\ ret = ModelRowsRef
    /\ literals = None
    /\ best = None
    /\ lookup = None
    /\ metadata = None
    /\ csv = None
    /\ state = None
    /\ tbody = None
    /\ event = None

\* const baseName = toPascalCase(name)
PascalCall(name) ==
    /\ pc = "idle"
    /\ text' = Some([fn |-> "toPascalCase", arg |-> name, result |-> toPascalCase(name)])
    /\ pc' = "converted"
    /\ UNCHANGED <<store, rawRows, tableModel, heap, call, ret, literals, best,
                   lookup, metadata, csv,
                   state, tbody, event>>

\* const format = detectRdfFormatFromFilename(filename)
DetectCall(filename) ==
    /\ pc = "idle"
    /\ text' = Some([fn |-> "detectRdfFormatFromFilename", arg |-> filename,
                     result |-> detectRdfFormatFromFilename(filename)])
    /\ pc' = "converted"
    /\ UNCHANGED <<store, rawRows, tableModel, heap, call, ret, literals, best,
                   lookup, metadata, csv,
                   state, tbody, event>>

\* The caller has used the result.
TextDone ==
    /\ pc = "converted"
    /\ pc' = "idle"
    /\ text' = None
    /\ UNCHANGED <<store, rawRows, tableModel, heap, call, ret, literals, best,
                   lookup, metadata, csv,
                   state, tbody, event>>

NextText ==
    \/ \E name \in NameArguments : PascalCall(name)
    \/ \E filename \in FilenameArguments : DetectCall(filename)
    \/ TextDone

SpecText == InitText /\ [][NextText]_vars

----------------------------------------------------------------------------
\* renderOntologyTable: the sort and filter state of a rendered table, its
\* body, and the handlers of its events.

\* let sortIndex = 0; let sortDirection = 'asc'; let currentQuery = '';
InitialState == [sortIndex |-> 0, sortDirection |-> "asc", currentQuery |-> EmptyString]

\* One cell of the body: td.textContent = value || ''
RenderCell(m, rowModel, i) ==
    LET key == m.keys[i]
    IN  IF key # "" THEN FieldOrEmpty(rowModel, key) ELSE EmptyString

\* rerenderBody: the rows filterAndSortRows gives for the state, a line of
\* cells for each, one cell per header; the array of the rows is dropped on
\* return.
\* (Variant: the rows are taken for the empty query.)
rerenderBodyUnfiltered(h, m, st) ==
    LET r == filterAndSortRows(h, m, Some(EmptyString), Some(st.sortIndex), st.sortDirection)
        rows == r.heap[r.ret]
    IN  [tbody |-> [i \in DOMAIN rows |->
                       [j \in DOMAIN m.headers |-> RenderCell(m, rows[i], j)]],
         heap |-> Restrict(r.heap, {m.rows})]
rerenderBody(h, m, st) ==
    LET r == filterAndSortRows(h, m, Some(st.currentQuery), Some(st.sortIndex),
                               st.sortDirection)
        rows == r.heap[r.ret]
    IN  [tbody |-> [i \in DOMAIN rows |->
                       [j \in DOMAIN m.headers |-> RenderCell(m, rows[i], j)]],
         heap |-> Restrict(r.heap, {m.rows})]

\* The state after a click on the header cell of column i.
\* (Variant: another column is taken with the direction as it is.)
ClickStateKeepDirection(st, i) ==
    IF i = st.sortIndex
    THEN [st EXCEPT !.sortDirection = IF @ = "asc" THEN "desc" ELSE "asc"]
    ELSE [st EXCEPT !.sortIndex = i]
ClickState(st, i) ==
    IF i = st.sortIndex
    THEN [st EXCEPT !.sortDirection = IF @ = "asc" THEN "desc" ELSE "asc"]
    ELSE [st EXCEPT !.sortIndex = i, !.sortDirection = "asc"]

\* The export handler: the text it downloads and the heap it leaves.
exportCsv(h, m, st) ==
    LET r == filterAndSortRows(h, m, Some(st.currentQuery), Some(st.sortIndex),
                               st.sortDirection)
    IN  [csv |-> tableModelToCsv(m, r.heap[r.ret]),
         heap |-> Restrict(r.heap, {m.rows})]

\* Tables of two columns with up to MaxRows rows; the user types one of three
\* queries and clicks on a header cell or beside the cells.

TableRows ==
    { [iri |-> <<"b">>, label |-> <<"a">>],
      [iri |-> <<"A", "b">>, label |-> <<"b", "a">>] }
TableRowSeqs(n) == UNION { [1..k -> TableRows] : k \in 0..n }
TypedQueries == { EmptyString, <<"a">>, <<"A", "B">> }

\* renderOntologyTable(container, ontologyMeta, tableModel), up to and
\* including its first rerenderBody().
InitTable ==
    /\ \E rows \in TableRowSeqs(MaxRows) :
          /\ tableModel = [headers |-> SampleHeaders, keys |-> SampleKeys,
                           rows |-> ModelRowsRef]
          /\ heap = (ModelRowsRef :> rows)
          /\ tbody = Some(rerenderBody(ModelRowsRef :> rows,
                                       [headers |-> SampleHeaders, keys |-> SampleKeys,
                                        rows |-> ModelRowsRef],
                                       InitialState).tbody)
    /\ state = Some(InitialState)
    /\ event = None
    /\ pc = "rendered"
    /\ call = NoCall
    /\ ret = ModelRowsRef
    /\ store = <<>>
    /\ rawRows = <<>>
    /\ literals = None
    /\ best = None
    /\ lookup = None
    /\ metadata = None
    /\ text = None
    /\ csv = None

\* thead click.  target is None for a click that is not on a header cell
\* (idx == null), and the index of the cell otherwise.
HeaderClick(target) ==
    /\ pc = "rendered"
    /\ event' = Some([type |-> "click", target |-> target, value |-> EmptyString])
    /\ IF IsNone(target)
       THEN UNCHANGED <<state, tbody, heap>>
       ELSE LET st == ClickState(Get(state), Get(target))
                body == rerenderBody(heap, tableModel, st)
            IN  /\ state' = Some(st)
                /\ tbody' = Some(body.tbody)
                /\ heap' = body.heap
    /\ UNCHANGED <<store, rawRows, tableModel, pc, call, ret, literals, best,
                   lookup, metadata, text, csv>>

\* filterInput input: currentQuery = ev.target.value; rerenderBody()
FilterInput(value) ==
    /\ pc = "rendered"
    /\ event' = Some([type |-> "input", target |-> None, value |-> value])
    /\ LET st == [Get(state) EXCEPT !.currentQuery = value]
           body == rerenderBody(heap, tableModel, st)
       IN  /\ state' = Some(st)
           /\ tbody' = Some(body.tbody)
           /\ heap' = body.heap
    /\ UNCHANGED <<store, rawRows, tableModel, pc, call, ret, literals, best,
                   lookup, metadata, text, csv>>

\* exportBtn click
ExportClick ==
    /\ pc = "rendered"
    /\ event' = Some([type |-> "export", target |-> None, value |-> EmptyString])
    /\ LET out == exportCsv(heap, tableModel, Get(state))
       IN  /\ csv' = Some(out.csv)
           /\ heap' = out.heap
    /\ UNCHANGED <<store, rawRows, tableModel, pc, call, ret, literals, best,
                   lookup, metadata, text, state, tbody>>

NextTable ==
    \/ \E target \in { None } \cup { Some(i) : i \in 0..(Len(tableModel.headers) - 1) } :
          HeaderClick(target)
    \/ \E value \in TypedQueries : FilterInput(value)
    \/ ExportClick

SpecTable == InitTable /\ [][NextTable]_vars

----------------------------------------------------------------------------
\* Properties of filterAndSortRows.

Returned == pc = "returned"
Result == heap[ret]

Count(seq, x) == Cardinality({i \in DOMAIN seq : seq[i] = x})
IsPermutation(s, t) ==
    /\ Len(s) = Len(t)
    /\ \A i \in DOMAIN s : Count(s, s[i]) = Count(t, s[i])

\* The lower-cased value contains the lower-cased query at some offset.
ContainsIgnoringCase(value, query) ==
    \E d \in 0..(Len(value) - Len(query)) :
        \A i \in 1..Len(query) : LowerChar(value[d + i]) = LowerChar(query[i])

QueryText(query) == IF IsNone(query) THEN EmptyString ELSE Get(query)

PassesFilter(row, query) ==
    \E k \in DOMAIN row : ContainsIgnoringCase(row[k], QueryText(query))

Passing(rows, query) == SelectSeq(rows, LAMBDA row : PassesFilter(row, query))

ValidSortIndex(sortIndex, headers) ==
    /\ ~IsNone(sortIndex)
    /\ 0 <= Get(sortIndex)
    /\ Get(sortIndex) < Len(headers)

\* C1: the returned rows are exactly the rows of model.rows of which some
\* field value, lower-cased, contains the lower-cased query; an empty or
\* missing query drops no row.
C1_FilterKeepsExactlyMatches ==
    Returned =>
        /\ IsPermutation(Result, Passing(call.rows, call.query))
        /\ (QueryText(call.query) = EmptyString => Len(Result) = Len(call.rows))

C1_Witness ==
    /\ Returned
    /\ QueryText(call.query) = <<"a", "b">>
    /\ Len(Result) = 1
    /\ Len(call.rows) = 3
    /\ Result[1].iri = <<"A", "b">>

\* C2: with a valid sort index the result is a permutation of the rows that
\* pass the filter, and adjacent rows are in non-decreasing order of the sort
\* column for 'asc', non-increasing for 'desc'.
C2_SortedPermutation ==
    (Returned /\ ValidSortIndex(call.sortIndex, tableModel.headers)) =>
        LET key == tableModel.keys[Get(call.sortIndex) + 1]
        IN  /\ IsPermutation(Result, Passing(call.rows, call.query))
            /\ \A i \in 1..(Len(Result) - 1) :
                  IF call.sortDirection = "asc"
                  THEN localeCompare(Result[i][key], Result[i + 1][key]) <= 0
                  ELSE localeCompare(Result[i][key], Result[i + 1][key]) >= 0

C2_Witness ==
    /\ Returned
    /\ call.sortIndex = Some(1)
    /\ call.sortDirection = "desc"
    /\ Len(Result) = 3
    /\ Result # call.rows
    /\ localeCompare(Result[1].label, Result[3].label) > 0

\* C3: with the sort index none, negative, or at least the number of
\* headers, the result is the rows that pass the filter in the order of
\* model.rows, whatever the direction.
C3_SortSkipped ==
    (Returned /\ ~ValidSortIndex(call.sortIndex, tableModel.headers)) =>
        Result = Passing(call.rows, call.query)

C3_Witness ==
    /\ Returned
    /\ call.sortIndex = Some(2)
    /\ call.sortDirection = "desc"
    /\ Len(Result) = 2
    /\ Len(call.rows) = 3
    /\ localeCompare(Result[1].label, Result[2].label) < 0

\* C4: a call leaves model.headers, model.keys, and the order, membership
\* and contents of model.rows as they were before it.
C4_InputNotMutated ==
    [][pc' = "returned" =>
          /\ tableModel' = tableModel
          /\ heap'[tableModel.rows] = heap[tableModel.rows]]_vars

C4_Witness ==
    /\ Returned
    /\ call.sortIndex = Some(1)
    /\ QueryText(call.query) = EmptyString
    /\ Len(call.rows) = 3
    /\ Result # call.rows
    /\ heap[tableModel.rows] = call.rows

\* C5: for every query and sort index the returned sequence is an object
\* other than model.rows.
C5_ReturnsNewSequence == Returned => ret # tableModel.rows

C5_AliasReached ==
    /\ Returned
    /\ ret = tableModel.rows
    /\ QueryText(call.query) = EmptyString
    /\ ~ValidSortIndex(call.sortIndex, tableModel.headers)

----------------------------------------------------------------------------
\* Properties of pickBestLiteral.

Picked == pc = "picked"

TagIsEn(tag) ==
    /\ Len(tag) = 2
    /\ LowerChar(tag[1]) = "e"
    /\ LowerChar(tag[2]) = "n"

First(indexes) == CHOOSE i \in indexes : \A j \in indexes : i <= j

\* C10: on an empty or missing input the result is none; otherwise it is
\* the first literal tagged 'en' ignoring case, else the first untagged
\* literal, else the first literal; it is always a member of the input.
C10_SelectionPolicy ==
    Picked =>
        IF IsNone(literals) \/ Get(literals) = <<>>
        THEN best = None
        ELSE LET ls == Get(literals)
                 english == {i \in DOMAIN ls : TagIsEn(ls[i].language)}
                 untagged == {i \in DOMAIN ls : ls[i].language = EmptyString}
             IN  /\ ~IsNone(best)
                 /\ \E i \in DOMAIN ls : ls[i] = Get(best)
                 /\ Get(best) = IF english # {} THEN ls[First(english)]
                                ELSE IF untagged # {} THEN ls[First(untagged)]
                                ELSE ls[1]

C10_Witness ==
    /\ Picked
    /\ ~IsNone(literals)
    /\ Len(Get(literals)) = 3
    /\ Get(literals)[1].language = <<"f", "r">>
    /\ Get(literals)[2].language = EmptyString
    /\ Get(literals)[3].language = <<"E", "N">>
    /\ best = Some(Get(literals)[3])

----------------------------------------------------------------------------
\* Properties of buildElementTableModel.

Built == pc = "built"
ModelRows == heap[tableModel.rows]

\* The display header of each key, and the place of each key in the fixed
\* column order.
DisplayHeader(key) ==
    CASE key = "iri" -> "iri"
      [] key = "label" -> "label"
      [] key = "type" -> "type"
      [] key = "definition" -> "definition"
      [] key = "preferredLabel" -> "preferred label"
      [] key = "alternativeLabel" -> "alternative label"
      [] key = "acronym" -> "acronym"
      [] key = "subClassOf" -> "rdfs:subClassOf"
      [] key = "subPropertyOf" -> "rdfs:subPropertyOf"
      [] key = "definitionSource" -> "definition source"
      [] key = "isCuratedIn" -> "is curated in"
      [] OTHER -> "?"

ColumnPlace(key) ==
    CASE key = "iri" -> 1
      [] key = "label" -> 2
      [] key = "type" -> 3
      [] key = "definition" -> 4
      [] key = "preferredLabel" -> 5
      [] key = "alternativeLabel" -> 6
      [] key = "acronym" -> 7
      [] key = "subClassOf" -> 8
      [] key = "subPropertyOf" -> 9
      [] key = "definitionSource" -> 10
      [] key = "isCuratedIn" -> 11
      [] OTHER -> 0

ColumnKeys == {"iri", "label", "type", "definition", "preferredLabel",
               "alternativeLabel", "acronym", "subClassOf", "subPropertyOf",
               "definitionSource", "isCuratedIn"}

\* C6: headers[0] = keys[0] = "iri", headers and keys have the same length,
\* the i-th header is the display header of the i-th key, and the columns
\* keep the fixed order.
C6_HeadersPairedWithKeys ==
    Built =>
        /\ Len(tableModel.headers) = Len(tableModel.keys)
        /\ Len(tableModel.keys) >= 1
        /\ tableModel.headers[1] = "iri"
        /\ tableModel.keys[1] = "iri"
        /\ \A i \in DOMAIN tableModel.keys :
              /\ tableModel.keys[i] \in ColumnKeys
              /\ tableModel.headers[i] = DisplayHeader(tableModel.keys[i])
        /\ \A i \in 1..(Len(tableModel.keys) - 1) :
              ColumnPlace(tableModel.keys[i]) < ColumnPlace(tableModel.keys[i + 1])

C6_Witness ==
    /\ Built
    /\ tableModel.keys = <<"iri", "type", "alternativeLabel", "subClassOf">>
    /\ Len(ModelRows) = 1

\* C7: every row of the returned model has exactly the keys of model.keys.
C7_RowsHaveExactlyTheKeys ==
    Built => \A i \in DOMAIN ModelRows : DOMAIN ModelRows[i] = Range(tableModel.keys)

C7_Witness ==
    /\ Built
    /\ Len(ModelRows) = 2
    /\ "label" \in Range(tableModel.keys)
    /\ "subClassOf" \notin Range(tableModel.keys)
    /\ \E i \in DOMAIN rawRows : "subClassOf" \in DOMAIN rawRows[i]

\* A value that is neither empty nor made of whitespace only.
NonBlank(value) == \E i \in DOMAIN value : value[i] \notin Whitespace

\* C8: a column other than iri is in headers/keys exactly when some row has
\* a value for it that is not empty and not whitespace-only; iri always is.
C8_ColumnPruning ==
    Built =>
        /\ "iri" \in Range(tableModel.keys)
        /\ "iri" \in Range(tableModel.headers)
        /\ \A key \in ColumnKeys \ {"iri"} :
              /\ (key \in Range(tableModel.keys)
                    <=> \E i \in DOMAIN rawRows : NonBlank(rawRows[i][key]))
              /\ (DisplayHeader(key) \in Range(tableModel.headers)
                    <=> \E i \in DOMAIN rawRows : NonBlank(rawRows[i][key]))
              /\ (key \in Range(tableModel.keys)
                    => \E i \in DOMAIN ModelRows : NonBlank(ModelRows[i][key]))

C8_Witness ==
    /\ Built
    /\ Len(rawRows) = 1
    /\ rawRows[1].label = <<" ">>
    /\ "label" \notin Range(tableModel.keys)
    /\ "type" \in Range(tableModel.keys)

\* The IRI subjects of the store that the element classifier accepts: those
\* with an rdf:type quad whose object is one of the five element type IRIs.
ElementTypes == {OwlClass, OwlNamedIndividual, OwlObjectProperty,
                 OwlDatatypeProperty, OwlAnnotationProperty}

QualifyingIris ==
    { q.subject.value : q \in
        { q \in Range(store) : /\ q.subject.termType = "NamedNode"
                               /\ q.predicate = NamedNode(RdfType)
                               /\ q.object.termType = "NamedNode"
                               /\ q.object.value \in ElementTypes } }

\* C9: one row per distinct IRI subject the classifier accepts: none for a
\* blank or non-qualifying subject, none twice, none missing.
C9_OneRowPerElement ==
    Built =>
        /\ {ModelRows[i].iri : i \in DOMAIN ModelRows} = QualifyingIris
        /\ Len(ModelRows) = Cardinality(QualifyingIris)
        /\ \A i, j \in DOMAIN ModelRows : ModelRows[i].iri = ModelRows[j].iri => i = j

C9_Witness ==
    /\ Built
    /\ Len(ModelRows) = 1
    /\ ModelRows[1].iri = ExA
    /\ Cardinality({i \in DOMAIN store : store[i].subject = NamedNode(ExA)}) = 2
    /\ \E i \in DOMAIN store : store[i].subject.termType = "BlankNode"
    /\ \A i \in DOMAIN store : store[i].predicate = NamedNode(RdfType)
    /\ \E i \in DOMAIN store : store[i].graph = NamedGraph

----------------------------------------------------------------------------
\* Properties of the preferred-value accessors.

Looked(fn) == pc = "looked" /\ Get(lookup).fn = fn
Asked == Get(lookup)

\* The objects of kind termType that the store gives (subject IRI, predicate).
StatedObjects(subjectIri, p, termType) ==
    { q.object : q \in { r \in Range(store) : /\ r.subject = NamedNode(subjectIri)
                                               /\ r.predicate = NamedNode(p)
                                               /\ r.object.termType = termType } }

\* The same objects in store order.
StatedInOrder(subjectIri, p, termType) ==
    MapObject(SelectSeq(store, LAMBDA q : /\ q.subject = NamedNode(subjectIri)
                                          /\ q.predicate = NamedNode(p)
                                          /\ q.object.termType = termType))

\* The positions of the candidate list whose predicate has such an object.
Supplying(termType) ==
    { i \in DOMAIN Asked.predicates :
        StatedObjects(Asked.subject, Asked.predicates[i], termType) # {} }

Least(S) == CHOOSE i \in S : \A j \in S : i <= j

\* C11: getPreferredLiteralForPredicates answers with a literal of the first
\* candidate predicate, in list order, for which the subject has a literal,
\* namely the one pickBestLiteral chooses among that predicate's literals,
\* whatever the languages of later predicates' literals; it answers with no
\* value exactly when no candidate predicate has a literal.
C11_PredicatePriorityOverLanguage ==
    Looked("getPreferredLiteralForPredicates") =>
        IF Supplying("Literal") = {} THEN IsNone(Asked.result)
        ELSE LET p == Asked.predicates[Least(Supplying("Literal"))]
                 own == StatedInOrder(Asked.subject, p, "Literal")
             IN  /\ ~IsNone(Asked.result)
                 /\ Get(Asked.result) = Get(pickBestLiteral(Some(own))).value
                 /\ \E l \in StatedObjects(Asked.subject, p, "Literal") :
                        l.value = Get(Asked.result)

\* The first candidate has only a French literal, a later one an English one,
\* and the French one is the answer.
C11_Witness ==
    /\ Looked("getPreferredLiteralForPredicates")
    /\ Asked.subject = ExA
    /\ Asked.predicates = <<RdfsLabel, DctermsTitle>>
    /\ StatedObjects(ExA, RdfsLabel, "Literal") = { Literal(<<"y">>, <<"f", "r">>) }
    /\ StatedObjects(ExA, DctermsTitle, "Literal") = { Literal(<<"z">>, <<"e", "n">>) }
    /\ Asked.result = Some(<<"y">>)

\* C12: getPreferredIriForPredicates answers with the value of an IRI object
\* that the subject has for the first candidate predicate with an IRI object;
\* literal and blank-node objects are passed over, other subjects and other
\* predicates never supply the answer; with no such object there is no value.
C12_FirstPredicateWithIri ==
    Looked("getPreferredIriForPredicates") =>
        IF Supplying("NamedNode") = {} THEN IsNone(Asked.result)
        ELSE LET p == Asked.predicates[Least(Supplying("NamedNode"))]
             IN  /\ ~IsNone(Asked.result)
                 /\ \E o \in StatedObjects(Asked.subject, p, "NamedNode") :
                        o.value = Get(Asked.result)

\* The first candidate has only a blank-node object, the second a literal and
\* an IRI, and the IRI is the answer.
C12_Witness ==
    /\ Looked("getPreferredIriForPredicates")
    /\ Asked.subject = ExA
    /\ Asked.predicates = <<RdfsSubClassOf, RdfsIsDefinedBy>>
    /\ StatedObjects(ExA, RdfsSubClassOf, "BlankNode") # {}
    /\ StatedObjects(ExA, RdfsSubClassOf, "NamedNode") = {}
    /\ StatedObjects(ExA, RdfsIsDefinedBy, "Literal") # {}
    /\ Asked.result = Some(ExB)

----------------------------------------------------------------------------
\* Properties of the multi-valued fields of buildElementTableModel.

\* The multi-valued fields, with the candidate predicates and the kinds of
\* object each draws its values from.
MultiValuedFields ==
    { [key |-> "type", predicates |-> {RdfType}, kinds |-> {"NamedNode"}],
      [key |-> "alternativeLabel",
       predicates |-> {SkosAltLabel, OboIAO_0000118, CcoAlternativeLabel},
       kinds |-> {"Literal"}],
      [key |-> "acronym", predicates |-> {CcoAcronym, OboIAO_0000606, Cco2Ont00001753},
       kinds |-> {"Literal"}],
      [key |-> "subClassOf", predicates |-> {RdfsSubClassOf}, kinds |-> {"NamedNode"}],
      [key |-> "subPropertyOf", predicates |-> {RdfsSubPropertyOf}, kinds |-> {"NamedNode"}],
      [key |-> "definitionSource",
       predicates |-> {DctermsBibliographicCitation, OboIAO_0000119, Cco2Ont00001754,
                       CcoDefinitionSource, Cco2Ont00001745, CcoDoctrinalSource},
       kinds |-> {"Literal", "NamedNode"}] }

\* The distinct values the store states for a subject under a field.
StatedValues(iri, f) ==
    { q.object.value : q \in { r \in Range(store) :
                                 /\ r.subject = NamedNode(iri)
                                 /\ r.predicate.termType = "NamedNode"
                                 /\ r.predicate.value \in f.predicates
                                 /\ r.object.termType \in f.kinds } }

\* The ways of writing a set down as a sequence, each member once.
Orderings(S) == { s \in [1..Cardinality(S) -> S] : Range(s) = S }

\* The items in a row, each followed but the last by "; ".
RECURSIVE SemicolonList(_)
SemicolonList(items) ==
    IF items = <<>> THEN EmptyString
    ELSE IF Len(items) = 1 THEN items[1]
    ELSE items[1] \o <<";", " ">> \o SemicolonList(Tail(items))

\* C13: in every row buildElementTableModel builds, each multi-valued field
\* (type, alternativeLabel, acronym, subClassOf, subPropertyOf,
\* definitionSource) is the list, separated by "; ", of the distinct values the
\* row's subject has for the field's candidate predicates among objects of the
\* accessor's kind: every such value once, no other value, and the rows of the
\* model carry the same string wherever the column was kept.
C13_MultiValuedFieldsJoined ==
    Built =>
        /\ \A i \in DOMAIN rawRows : \A f \in MultiValuedFields :
               \E vals \in Orderings(StatedValues(rawRows[i].iri, f)) :
                  rawRows[i][f.key] = SemicolonList(vals)
        /\ \A i \in DOMAIN ModelRows : \A f \in MultiValuedFields :
               f.key \in DOMAIN ModelRows[i] => ModelRows[i][f.key] = rawRows[i][f.key]

\* A subject with the alternative labels "x" and "y": both in its row, once
\* each, with "; " between them.
C13_Witness ==
    /\ Built
    /\ \E i \in DOMAIN ModelRows :
          /\ ModelRows[i].iri = ExA
          /\ "alternativeLabel" \in DOMAIN ModelRows[i]
          /\ ModelRows[i].alternativeLabel \in { <<"x", ";", " ", "y">>, <<"y", ";", " ", "x">> }

----------------------------------------------------------------------------
\* Properties of shouldIncludeElementSubject.

ElementTypeIris ==
    { OwlClass, OwlNamedIndividual, OwlObjectProperty, OwlDatatypeProperty,
      OwlAnnotationProperty }

\* The store types the term, by an rdf:type quad with an IRI object, as one of
\* the five kinds of element.
TypedAsElement(term) ==
    \E q \in Range(store) :
        /\ q.subject = term
        /\ q.predicate = NamedNode(RdfType)
        /\ q.object.termType = "NamedNode"
        /\ q.object.value \in ElementTypeIris

\* C14: shouldIncludeElementSubject is false for a missing subject, for a
\* blank node and for any subject that is not an IRI; for an IRI subject it is
\* true exactly when some rdf:type quad of that subject has an IRI object
\* among owl:Class, owl:NamedIndividual, owl:ObjectProperty,
\* owl:DatatypeProperty and owl:AnnotationProperty.
C14_ElementSubjectTest ==
    Looked("shouldIncludeElementSubject") =>
        IF IsNone(Asked.subject) THEN Asked.result = FALSE
        ELSE IF Get(Asked.subject).termType # "NamedNode" THEN Asked.result = FALSE
        ELSE Asked.result = TypedAsElement(Get(Asked.subject))

\* An IRI subject typed owl:Ontology and owl:AnnotationProperty is an
\* element.
C14_Witness ==
    /\ Looked("shouldIncludeElementSubject")
    /\ Asked.subject = Some(NamedNode(ExA))
    /\ Quad(NamedNode(ExA), NamedNode(RdfType), NamedNode(OwlOntology), DefaultGraph)
           \in Range(store)
    /\ Quad(NamedNode(ExA), NamedNode(RdfType), NamedNode(OwlAnnotationProperty),
            DefaultGraph) \in Range(store)
    /\ Asked.result = TRUE

----------------------------------------------------------------------------
\* Properties of extractOntologyMetadata.

Extracted == pc = "extracted"
Metadata == Get(metadata)

\* Some subject of the store has an rdf:type triple whose object is
\* owl:Ontology.
HasOntologySubject ==
    \E q \in Range(store) : /\ q.predicate = NamedNode(RdfType)
                            /\ q.object = NamedNode(OwlOntology)

MetadataFields ==
    { "ontologyIri", "ontologyName", "versionIri", "versionInfo", "description",
      "license", "rightsHolder" }

\* C15: when no subject of the store has an rdf:type triple whose object is
\* owl:Ontology, extractOntologyMetadata returns a record whose seven fields
\* (ontologyIri, ontologyName, versionIri, versionInfo, description, license,
\* rightsHolder) are all none.
C15_NoOntologyNoMetadata ==
    (Extracted /\ ~HasOntologySubject) =>
        /\ DOMAIN Metadata = MetadataFields
        /\ \A f \in MetadataFields : IsNone(Metadata[f])

\* A store that names and licenses a subject typed owl:Ontology only by a
\* literal: nothing is extracted.
C15_Witness ==
    /\ Extracted
    /\ ~HasOntologySubject
    /\ Quad(NamedNode(ExB), NamedNode(RdfType), Literal(OwlOntology, EmptyString),
            DefaultGraph) \in Range(store)
    /\ Quad(NamedNode(ExB), NamedNode(RdfsLabel), Literal(<<"x">>, <<"e", "n">>),
            DefaultGraph) \in Range(store)
    /\ \A f \in MetadataFields : IsNone(Metadata[f])

----------------------------------------------------------------------------
\* The table model of a store without elements.

\* C16: when no subject of the store qualifies as an ontology element, the
\* empty store included, buildElementTableModel returns a model with no rows
\* whose headers and whose keys are both exactly <<"iri">>.
C16_NoElementsOnlyIriColumn ==
    (Built /\ QualifyingIris = {}) =>
        /\ ModelRows = <<>>
        /\ rawRows = <<>>
        /\ tableModel.headers = <<"iri">>
        /\ tableModel.keys = <<"iri">>

\* A store of three quads about an ontology, a blank-node class and a label,
\* none of them an element: no rows and the iri column alone.
C16_Witness ==
    /\ Built
    /\ Len(store) = 3
    /\ QualifyingIris = {}
    /\ \E i \in DOMAIN store : /\ store[i].subject.termType = "BlankNode"
                                /\ store[i].object = NamedNode(OwlClass)
    /\ \E i \in DOMAIN store : store[i].object = NamedNode(OwlOntology)
    /\ \E i \in DOMAIN store : store[i].predicate = NamedNode(RdfsLabel)
    /\ ModelRows = <<>>
    /\ tableModel.headers = <<"iri">>

----------------------------------------------------------------------------
\* Properties of tableModelToCsv.

Exported == pc = "exported"
Csv == Get(csv)
GivenRows == heap[ret]

\* The value with every double quote written twice.
RECURSIVE Doubled(_)
Doubled(v) ==
    IF v = <<>> THEN <<>>
    ELSE Doubled(SubSeq(v, 1, Len(v) - 1))
         \o (IF v[Len(v)] = "\"" THEN <<"\"", "\"">> ELSE <<v[Len(v)]>>)

\* The field of a row for a key: its value, or the empty string, in quotes.
ExpectedField(row, key) ==
    <<"\"">> \o Doubled(IF key \in DOMAIN row THEN row[key] ELSE <<>>) \o <<"\"">>

\* The first n fields of a row with commas between them.
RECURSIVE ExpectedFields(_, _)
ExpectedFields(row, n) ==
    IF n = 0 THEN <<>>
    ELSE IF n = 1 THEN ExpectedField(row, tableModel.keys[1])
    ELSE ExpectedFields(row, n - 1) \o <<",">> \o ExpectedField(row, tableModel.keys[n])

\* The first n headers with commas between them.
RECURSIVE ExpectedHeaders(_)
ExpectedHeaders(n) ==
    IF n = 0 THEN <<>>
    ELSE IF n = 1 THEN <<tableModel.headers[1]>>
    ELSE ExpectedHeaders(n - 1) \o <<",">> \o <<tableModel.headers[n]>>

\* The header line followed by the lines of the first n rows, each after a
\* newline.
RECURSIVE ExpectedCsv(_)
ExpectedCsv(n) ==
    IF n = 0 THEN ExpectedHeaders(Len(tableModel.headers))
    ELSE ExpectedCsv(n - 1) \o <<"\n">>
         \o ExpectedFields(GivenRows[n], Len(tableModel.keys))

\* C17: the text tableModelToCsv returns is the display headers joined by
\* commas, followed for each given row, in the given order, by a newline and
\* the row's fields joined by commas, one field per key of the model in key
\* order, a field being the row's value for the key (the empty string when the
\* row has none) between double quotes with each double quote of the value
\* doubled; nothing follows the last line.
C17_CsvFormat ==
    Exported =>
        /\ Csv = ExpectedCsv(Len(GivenRows))
        /\ Csv[Len(Csv)] # "\n"

\* Two rows under three columns: one lacks every key but iri, the other has a
\* label with two quotes in it.
C17_Witness ==
    /\ Exported
    /\ Len(tableModel.keys) = 3
    /\ GivenRows = << [iri |-> <<"b">>], [iri |-> <<"a">>, label |-> <<"\"", "a", "\"">>] >>
    /\ Csv = << "iri", ",", "label", ",", "rdfs:subClassOf", "\n",
                "\"", "b", "\"", ",", "\"", "\"", ",", "\"", "\"", "\n",
                "\"", "a", "\"", ",", "\"", "\"", "\"", "a", "\"", "\"", "\"", ",",
                "\"", "\"" >>

----------------------------------------------------------------------------
\* Properties of toPascalCase.

Converted(fn) == pc = "converted" /\ Get(text).fn = fn
Argument == Get(text).arg
Answer == Get(text).result

AsciiAlnum ==
    {UpperLetters[i] : i \in DOMAIN UpperLetters}
        \cup {LowerLetters[i] : i \in DOMAIN LowerLetters} \cup Digits

\* The places of a name that hold an ASCII alphanumeric character, in order,
\* and those among them where a maximal run of such characters starts.
AlnumPlaces(name) ==
    SelectSeq([i \in DOMAIN name |-> i], LAMBDA i : name[i] \in AsciiAlnum)
RunStarts(name) ==
    { i \in DOMAIN name : /\ name[i] \in AsciiAlnum
                          /\ (i = 1 \/ name[i - 1] \notin AsciiAlnum) }

\* The runs of a name one after the other, the first character of each in
\* upper case.
RunsCapitalized(name) ==
    [k \in DOMAIN AlnumPlaces(name) |->
        LET i == AlnumPlaces(name)[k]
        IN  IF i \in RunStarts(name) THEN UpperChar(name[i]) ELSE name[i]]

HasWord(name) == ~IsNone(name) /\ \E i \in DOMAIN Get(name) : Get(name)[i] \in AsciiAlnum

\* C18: for a name with at least one ASCII alphanumeric character,
\* toPascalCase returns the name's maximal runs of ASCII alphanumeric
\* characters concatenated in order, each with its first character in upper
\* case and the rest unchanged; the result has no space and no character that
\* is not alphanumeric.
C18_PascalCaseOfRuns ==
    (Converted("toPascalCase") /\ HasWord(Argument)) =>
        /\ Answer = RunsCapitalized(Get(Argument))
        /\ \A k \in DOMAIN Answer : Answer[k] \in AsciiAlnum

\* "a-1 B" gives "A1B".
C18_Witness ==
    /\ Converted("toPascalCase")
    /\ Argument = Some(<<"a", "-", "1", "B">>)
    /\ Answer = <<"A", "1", "B">>

\* C19: for a missing name, an empty name and a name without any ASCII
\* alphanumeric character toPascalCase returns "Ontology", and it never
\* returns the empty string.
C19_FallsBackToOntology ==
    Converted("toPascalCase") =>
        /\ ~HasWord(Argument) => Answer = <<"O", "n", "t", "o", "l", "o", "g", "y">>
        /\ Answer # EmptyString

\* The name "-" is answered with the empty string.
C19_EmptyResultReached ==
    /\ Converted("toPascalCase")
    /\ Argument = Some(<<"-">>)
    /\ Answer = EmptyString

----------------------------------------------------------------------------
\* Properties of detectRdfFormatFromFilename.

\* The name ends with the suffix, letters compared without regard to case.
EndsWithIgnoringCase(filename, suffix) ==
    /\ ~IsNone(filename)
    /\ Len(suffix) <= Len(Get(filename))
    /\ \A i \in DOMAIN suffix :
          LowerChar(Get(filename)[Len(Get(filename)) - Len(suffix) + i]) = suffix[i]

\* C20: detectRdfFormatFromFilename answers for every filename, a missing or
\* empty one included, by the suffix of the name without regard to case:
\* application/n-triples for .nt, application/n-quads for .nq,
\* application/trig for .trig, and text/turtle for .ttl, for .n3 and for every
\* other name; it gives no other answer.
C20_FormatBySuffix ==
    Converted("detectRdfFormatFromFilename") =>
        LET nt == EndsWithIgnoringCase(Argument, <<".", "n", "t">>)
            nq == EndsWithIgnoringCase(Argument, <<".", "n", "q">>)
            trig == EndsWithIgnoringCase(Argument, <<".", "t", "r", "i", "g">>)
        IN  /\ Answer \in { "text/turtle", "application/n-triples", "application/n-quads",
                             "application/trig" }
            /\ (Answer = "application/n-triples") = nt
            /\ (Answer = "application/n-quads") = nq
            /\ (Answer = "application/trig") = trig
            /\ (Answer = "text/turtle") = (~nt /\ ~nq /\ ~trig)

\* "a.nt.NQ" is N-Quads.
C20_Witness ==
    /\ Converted("detectRdfFormatFromFilename")
    /\ Argument = Some(<<"a", ".", "n", "t", ".", "N", "q">>)
    /\ Answer = "application/n-quads"

----------------------------------------------------------------------------
\* Blank nodes and extractOntologyMetadata.

\* The IRIs of the named subjects the store types owl:Ontology.
NamedOntologyIris ==
    { q.subject.value : q \in { r \in Range(store) :
                                  /\ r.subject.termType = "NamedNode"
                                  /\ r.predicate = NamedNode(RdfType)
                                  /\ r.object = NamedNode(OwlOntology) } }

\* The identifiers of the blank nodes the store types owl:Ontology.
BlankOntologyIds ==
    { q.subject.value : q \in { r \in Range(store) :
                                  /\ r.subject.termType = "BlankNode"
                                  /\ r.predicate = NamedNode(RdfType)
                                  /\ r.object = NamedNode(OwlOntology) } }

\* C21: the ontologyIri that extractOntologyMetadata returns is none or the
\* IRI of a named subject typed owl:Ontology, never the identifier of a blank
\* node; and when the only subjects typed owl:Ontology are blank nodes, every
\* field of the record is none.
C21_BlankNodesExcluded ==
    Extracted =>
        /\ IsNone(Metadata.ontologyIri) \/ Get(Metadata.ontologyIri) \in NamedOntologyIris
        /\ NamedOntologyIris = {} => \A f \in MetadataFields : IsNone(Metadata[f])

\* A store whose one ontology is a blank node: its identifier is returned as
\* the ontologyIri.
C21_BlankIdReported ==
    /\ Extracted
    /\ NamedOntologyIris = {}
    /\ BlankOntologyIds = { Blank0 }
    /\ Metadata.ontologyIri = Some(Blank0)

----------------------------------------------------------------------------
\* Ties of the sort.

\* The rows of a list whose value in a column compares equal to v, in the
\* order of the list.
TiedWith(rows, key, v) ==
    SelectSeq(rows, LAMBDA row : localeCompare(FieldOrEmpty(row, key), v) = 0)

\* C22: with a valid sort index and either direction, the rows that pass the
\* filter and whose values in the sort column compare equal come in the
\* result in the order they have in model.rows.
C22_SortTiesStable ==
    (Returned /\ ValidSortIndex(call.sortIndex, tableModel.headers)) =>
        LET key == tableModel.keys[Get(call.sortIndex) + 1]
        IN  \A i \in DOMAIN Result :
               TiedWith(Result, key, FieldOrEmpty(Result[i], key))
                   = TiedWith(Passing(call.rows, call.query), key,
                              FieldOrEmpty(Result[i], key))

\* A descending sort by label moves the third row to the front and leaves the
\* first two, which have one label and different iris, in their order.
C22_Witness ==
    /\ Returned
    /\ call.sortIndex = Some(1)
    /\ call.sortDirection = "desc"
    /\ Len(call.rows) = 3
    /\ call.rows[1].label = call.rows[2].label
    /\ call.rows[1].iri # call.rows[2].iri
    /\ Result = <<call.rows[3], call.rows[1], call.rows[2]>>
    /\ Result # call.rows

----------------------------------------------------------------------------
\* Properties of the rendered table.

State == Get(state)
Event == Get(event)

\* The event handled by a step, and whether it is a click on the header cell
\* of some column.
Handled(type) == ~IsNone(event') /\ Get(event').type = type
ClickOnHeader == Handled("click") /\ ~IsNone(Get(event').target)
ClickedColumn == Get(Get(event').target)

\* What a step does to the sort and filter state.
SameColumnClickFlips ==
    (ClickOnHeader /\ ClickedColumn = State.sortIndex) =>
        /\ Get(state').sortIndex = State.sortIndex
        /\ Get(state').sortDirection # State.sortDirection
        /\ Get(state').sortDirection \in {"asc", "desc"}
        /\ Get(state').currentQuery = State.currentQuery

OtherColumnClickResets ==
    (ClickOnHeader /\ ClickedColumn # State.sortIndex) =>
        /\ Get(state').sortIndex = ClickedColumn
        /\ Get(state').sortDirection = "asc"
        /\ Get(state').currentQuery = State.currentQuery

InputReplacesQuery ==
    Handled("input") =>
        /\ Get(state').currentQuery = Get(event').value
        /\ Get(state').sortIndex = State.sortIndex
        /\ Get(state').sortDirection = State.sortDirection

DescendingOnlyBySameColumnClick ==
    Get(state').sortDirection = "desc" =>
        \/ (ClickOnHeader /\ ClickedColumn = State.sortIndex)
        \/ (~ClickOnHeader /\ State.sortDirection = "desc")

StartsUnsorted ==
    /\ State.sortIndex = 0
    /\ State.sortDirection = "asc"
    /\ State.currentQuery = EmptyString

\* C23: the table starts sorted by column 0, ascending, with the empty
\* query.  A click on the header of the current sort column flips the
\* direction and keeps the column; a click on another header makes that
\* column the sort column, ascending; a filter input replaces the query and
\* leaves the sort column and the direction as they are.  So the direction
\* is descending after a step only if the step was a click on the column
\* that was the sort column already, or was no header click and found the
\* direction descending.
C23_SortState ==
    /\ StartsUnsorted
    /\ [][SameColumnClickFlips /\ OtherColumnClickResets /\ InputReplacesQuery
             /\ DescendingOnlyBySameColumnClick]_vars

\* After a click on column 1, then on column 1 again, then a filter input,
\* the table is sorted by column 1, descending.
C23_Witness ==
    /\ pc = "rendered"
    /\ ~IsNone(event)
    /\ Event.type = "input"
    /\ State.sortIndex = 1
    /\ State.sortDirection = "desc"
    /\ State.currentQuery = <<"a">>

----------------------------------------------------------------------------
\* The table body and the export against the table state.

Body == Get(tbody)

\* filterAndSortRows(tableModel, currentQuery, sortIndex, sortDirection) for
\* the state the table is in.
RowsForState ==
    LET r == filterAndSortRows(heap, tableModel, Some(State.currentQuery),
                               Some(State.sortIndex), State.sortDirection)
    IN  r.heap[r.ret]

\* The body shows the rows, one line each in their order, the value of every
\* key in the column of the key.
BodyShows(rows) ==
    /\ Len(Body) = Len(rows)
    /\ \A i \in DOMAIN rows :
          /\ Len(Body[i]) = Len(tableModel.keys)
          /\ \A j \in DOMAIN tableModel.keys : Body[i][j] = rows[i][tableModel.keys[j]]

BodyMatchesState == BodyShows(RowsForState)

ExportMatchesState ==
    (~IsNone(event) /\ Event.type = "export") =>
        Csv = tableModelToCsv(tableModel, RowsForState)

ModelUntouched ==
    /\ tableModel' = tableModel
    /\ heap'[tableModel.rows] = heap[tableModel.rows]

\* C24: after the first render and after every sequence of header clicks and
\* filter inputs, the body of the table shows exactly the rows
\* filterAndSortRows gives for the table model and the current query, sort
\* index and direction, in that order; an export at that point writes those
\* rows in that order; and no event changes the table model or its rows.
C24_DisplayAndExportFollowState ==
    /\ [](BodyMatchesState /\ ExportMatchesState)
    /\ [][ModelUntouched]_vars

\* Sorted by label, descending, and filtered by "a", the table of two rows
\* shows the second row first, and the export has just written both.
C24_Witness ==
    /\ pc = "rendered"
    /\ ~IsNone(event)
    /\ Event.type = "export"
    /\ State = [sortIndex |-> 1, sortDirection |-> "desc", currentQuery |-> <<"a">>]
    /\ heap[tableModel.rows] = << [iri |-> <<"b">>, label |-> <<"a">>],
                                  [iri |-> <<"A", "b">>, label |-> <<"b", "a">>] >>
    /\ Body = << << <<"A", "b">>, <<"b", "a">> >>, << <<"b">>, <<"a">> >> >>
    /\ Csv = << "iri", ",", "label", "\n",
                "\"", "A", "b", "\"", ",", "\"", "b", "a", "\"", "\n",
                "\"", "b", "\"", ",", "\"", "a", "\"" >>

----------------------------------------------------------------------------
\* The type column.

\* The IRI is one of the values listed in the field.
Lists(field, iri) == \E k \in DOMAIN field : <<field[k]>> = iri

\* C25: every row of a model buildElementTableModel returns has a type value
\* that is not empty and lists at least one of owl:Class, owl:NamedIndividual,
\* owl:ObjectProperty, owl:DatatypeProperty and owl:AnnotationProperty; so a
\* model with a row has the type column among its headers and its keys.
C25_TypeColumnPresent ==
    Built =>
        /\ \A i \in DOMAIN ModelRows :
              /\ "type" \in DOMAIN ModelRows[i]
              /\ ModelRows[i].type # EmptyString
              /\ \E t \in ElementTypes : Lists(ModelRows[i].type, t)
        /\ \A i \in DOMAIN rawRows :
              \E t \in ElementTypes : Lists(rawRows[i].type, t)
        /\ Len(ModelRows) >= 1 =>
              /\ \E j \in DOMAIN tableModel.keys : tableModel.keys[j] = "type"
              /\ \E j \in DOMAIN tableModel.headers : tableModel.headers[j] = "type"

\* A subject typed owl:ObjectProperty and owl:Ontology: its row lists both
\* types, and the model has the type column.
C25_Witness ==
    /\ Built
    /\ Len(ModelRows) = 1
    /\ ModelRows[1].iri = ExB
    /\ Lists(ModelRows[1].type, OwlObjectProperty)
    /\ Lists(ModelRows[1].type, OwlOntology)
    /\ tableModel.keys = <<"iri", "type">>

====
